---- MODULE Spec2Model ----
(***************************************************************************)
(* Model of the GoldKach investment API: portfolio-asset rows and their    *)
(* derived gain/loss, the activity log and its retention cleanup, the      *)
(* role middleware in front of the report routers, and the aggregation     *)
(* done by the financial report controllers.                               *)
(***************************************************************************)
EXTENDS Integers, Sequences, FiniteSets, TLC

VARIABLES
    asset,            \* Asset table: asset id -> [closePrice]
    portfolioAsset,   \* PortfolioAsset table: row id -> row
    nextPaId,         \* next PortfolioAsset id the database hands out
    paReq,            \* in-flight portfolio-asset requests: slot -> position and locals
    paRes,            \* last response of a portfolio-asset handler
    activityLog,      \* ActivityLog table: a set of rows [id, createdAt, action]
    nextLogId,        \* next ActivityLog id the database hands out
    now,              \* the clock, in days
    ticks,            \* how many times the clock has advanced
    cleanup,          \* the in-flight deleteOldLogs request
    logRes,           \* outcome of the last finished deleteOldLogs request
    rr,               \* last call of a requireRole middleware: inputs and outcome
    http,             \* the request travelling through a report router
    deposit,          \* Deposit table: a set of rows
    withdrawal,       \* Withdrawal table: a set of rows
    activity,         \* ActivityLog rows seen by the activity report: status -> how many
    activityUsers,    \* the same rows by user, in order of first appearance: how many each
    wallet,           \* Wallet table: a set of rows
    assetSectors,     \* Asset rows seen by the portfolio report: sector -> how many
    report,           \* last response of a report or export controller
    files,            \* temp files in the exports directory: [path, owner]
    exportReq,        \* export requests: slot -> position, temp file path, timer
    clock,            \* the clock of the export handlers, in seconds
    dbUser,           \* User table: user id -> [password, status]
    refreshToken,     \* RefreshToken table: token id -> [userId, revoked, basis]
    pendingWithdrawals, \* Withdrawal rows in status PENDING: user id -> how many
    acct              \* account and login requests: process -> position and locals

paVars == <<asset, portfolioAsset, nextPaId, paReq, paRes>>
logVars == <<activityLog, nextLogId, now, ticks, cleanup, logRes>>
accessVars == <<rr, http>>
tables == <<deposit, withdrawal, activity, activityUsers, wallet, assetSectors>>
exportVars == <<files, exportReq, clock>>
accountVars == <<dbUser, refreshToken, pendingWithdrawals, acct>>
reportVars == <<deposit, withdrawal, activity, activityUsers, wallet, assetSectors, report,
                files, exportReq, clock>>

vars == <<asset, portfolioAsset, nextPaId, paReq, paRes,
          activityLog, nextLogId, now, ticks, cleanup, logRes, rr, http,
          deposit, withdrawal, activity, activityUsers, wallet, assetSectors, report,
          files, exportReq, clock,
          dbUser, refreshToken, pendingWithdrawals, acct>>

(***************************************************************************)
(* JavaScript values of a request body or query string.                    *)
(*   kind "undefined" | "null" | "number" | "numstr" (the decimal string   *)
(*   of n) | "empty" (the string "") | "garbage" (a non-numeric string)    *)
(***************************************************************************)
JsUndefined == [kind |-> "undefined", n |-> 0]
JsNull == [kind |-> "null", n |-> 0]
JsEmpty == [kind |-> "empty", n |-> 0]
JsGarbage == [kind |-> "garbage", n |-> 0]
JsNumber(n) == [kind |-> "number", n |-> n]
JsNumStr(n) == [kind |-> "numstr", n |-> n]

\* a JavaScript number that may be NaN
NaN == [nan |-> TRUE, n |-> 0]
Num(n) == [nan |-> FALSE, n |-> n]

\* Number(v): undefined and non-numeric strings give NaN, null and "" give 0
JsToNumber(v) ==
    CASE v.kind = "undefined" -> NaN
      [] v.kind = "garbage" -> NaN
      [] v.kind = "null" -> Num(0)
      [] v.kind = "empty" -> Num(0)
      [] OTHER -> Num(v.n)

\* parseInt(v, 10): only a number or a decimal string gives a number
JsParseInt(v) ==
    CASE v.kind = "number" -> Num(v.n)
      [] v.kind = "numstr" -> Num(v.n)
      [] OTHER -> NaN

MinOf(a, b) == IF a < b THEN a ELSE b
MaxOf(a, b) == IF a < b THEN b ELSE a

(***************************************************************************)
(* Portfolio assets (dist/controllers/portfolioassets.js)                  *)
(***************************************************************************)
MaxNum == 1

\* the ids the database hands out to PortfolioAsset rows, in this order
PaIds == {1, 2}

Portfolios == {"p1"}
Assets == {"a1"}
PaSlots == {"r1", "r2"}

\* the values a numeric body field can carry
PaRaw ==
    {JsUndefined, JsNull, JsGarbage} \cup {JsNumber(n) : n \in {0, MaxNum}}

toNum(v, def) ==
    LET n == JsToNumber(v) IN IF n.nan THEN def ELSE n.n

calcLossGainSwapped(costPrice, closeValue, stock) == (costPrice - closeValue) * stock

calcLossGain(costPrice, closeValue, stock) == (closeValue - costPrice) * stock

PaIdle == [pc |-> "idle"]

\* what no portfolio-asset handler touches
PaFrame == UNCHANGED <<logVars, accessVars, reportVars, accountVars>>

PaInit ==
    /\ asset = [a \in Assets |-> [closePrice |-> 1]]
    /\ portfolioAsset = << >>
    /\ nextPaId = 1
    /\ paReq = [r \in PaSlots |-> PaIdle]
    /\ paRes = [op |-> "none", status |-> 0]

PaRespond(r, op, status) ==
    /\ paReq' = [paReq EXCEPT ![r] = PaIdle]
    /\ paRes' = [op |-> op, status |-> status]

\* lines 11-26: required ids, then closeValue defaults to Asset.closePrice
\* and is converted with toNum
CreatePortfolioAssetBegin(r, portfolioId, assetId, closeValue) ==
    /\ paReq[r].pc = "idle"
    /\ IF portfolioId = "" \/ assetId = ""
       THEN PaRespond(r, "createPortfolioAsset", 400)
       ELSE IF closeValue.kind \in {"undefined", "null", "empty"}
       THEN IF assetId \notin DOMAIN asset
            THEN PaRespond(r, "createPortfolioAsset", 404)
            ELSE /\ paReq' = [paReq EXCEPT ![r] =
                        [pc |-> "createCheck", portfolioId |-> portfolioId,
                         assetId |-> assetId,
                         closeValue |-> toNum(JsNumber(asset[assetId].closePrice), 0)]]
                 /\ UNCHANGED paRes
       ELSE /\ paReq' = [paReq EXCEPT ![r] =
                   [pc |-> "createCheck", portfolioId |-> portfolioId,
                    assetId |-> assetId, closeValue |-> toNum(closeValue, 0)]]
            /\ UNCHANGED paRes
    /\ UNCHANGED <<asset, portfolioAsset, nextPaId>>
    /\ PaFrame

\* lines 28-35: the portfolio and the asset must exist
CreatePortfolioAssetCheck(r) ==
    /\ paReq[r].pc = "createCheck"
    /\ IF paReq[r].portfolioId \notin Portfolios
       THEN PaRespond(r, "createPortfolioAsset", 404)
       ELSE IF paReq[r].assetId \notin DOMAIN asset
       THEN PaRespond(r, "createPortfolioAsset", 404)
       ELSE /\ paReq' = [paReq EXCEPT ![r].pc = "createWrite"]
            /\ UNCHANGED paRes
    /\ UNCHANGED <<asset, portfolioAsset, nextPaId>>
    /\ PaFrame

\* lines 16-17, 36-52: the row is written with its lossGain; the unique
\* key (portfolioId, assetId) answers 409. The schema is not part of the
\* source: with a foreign key on assetId (enforced) the create of a row
\* whose asset is gone throws, without one it succeeds
CreatePortfolioAssetWrite(r, rawStock, rawCostPrice, enforced) ==
    /\ paReq[r].pc = "createWrite"
    /\ LET stock == toNum(rawStock, 0)
           costPrice == toNum(rawCostPrice, 0)
           closeValue == paReq[r].closeValue
           lossGain == calcLossGain(costPrice, closeValue, stock)
           dup == \E i \in DOMAIN portfolioAsset :
                      /\ portfolioAsset[i].portfolioId = paReq[r].portfolioId
                      /\ portfolioAsset[i].assetId = paReq[r].assetId
       IN IF enforced /\ paReq[r].assetId \notin DOMAIN asset
          THEN /\ PaRespond(r, "createPortfolioAsset", 500)
               /\ UNCHANGED <<portfolioAsset, nextPaId>>
          ELSE IF dup
          THEN /\ PaRespond(r, "createPortfolioAsset", 409)
               /\ UNCHANGED <<portfolioAsset, nextPaId>>
          ELSE /\ nextPaId \in PaIds
               /\ portfolioAsset' =
                      [i \in DOMAIN portfolioAsset \cup {nextPaId} |->
                          IF i = nextPaId
                          THEN [portfolioId |-> paReq[r].portfolioId,
                                assetId |-> paReq[r].assetId,
                                stock |-> stock, costPrice |-> costPrice,
                                closeValue |-> closeValue, lossGain |-> lossGain]
                          ELSE portfolioAsset[i]]
               /\ nextPaId' = nextPaId + 1
               /\ PaRespond(r, "createPortfolioAsset", 201)
    /\ UNCHANGED asset
    /\ PaFrame

\* lines 98-101: read the current row
UpdatePortfolioAssetRead(r, id) ==
    /\ paReq[r].pc = "idle"
    /\ IF id \notin DOMAIN portfolioAsset
       THEN PaRespond(r, "updatePortfolioAsset", 404)
       ELSE /\ paReq' = [paReq EXCEPT ![r] =
                   [pc |-> "updateWrite", id |-> id, current |-> portfolioAsset[id]]]
            /\ UNCHANGED paRes
    /\ UNCHANGED <<asset, portfolioAsset, nextPaId>>
    /\ PaFrame

\* lines 102-119: every field falls back to the row read, and the four
\* fields are written together; a row deleted meanwhile makes update throw
UpdatePortfolioAssetWrite(r, rawStock, rawCostPrice, rawCloseValue) ==
    /\ paReq[r].pc = "updateWrite"
    /\ LET current == paReq[r].current
           id == paReq[r].id
           stock == IF rawStock.kind # "undefined"
                    THEN toNum(rawStock, current.stock) ELSE current.stock
           costPrice == IF rawCostPrice.kind # "undefined"
                        THEN toNum(rawCostPrice, current.costPrice)
                        ELSE current.costPrice
           closeValue == IF rawCloseValue.kind # "undefined"
                         THEN toNum(rawCloseValue, current.closeValue)
                         ELSE current.closeValue
           lossGain == calcLossGain(costPrice, closeValue, stock)
       IN IF id \notin DOMAIN portfolioAsset
          THEN /\ PaRespond(r, "updatePortfolioAsset", 500)
               /\ UNCHANGED portfolioAsset
          ELSE /\ portfolioAsset' = [portfolioAsset EXCEPT ![id] =
                      [@ EXCEPT !.stock = stock, !.costPrice = costPrice,
                                !.closeValue = closeValue, !.lossGain = lossGain]]
               /\ PaRespond(r, "updatePortfolioAsset", 200)
    /\ UNCHANGED <<asset, nextPaId>>
    /\ PaFrame

\* lines 122-134: delete by id, 404 when the row is gone
DeletePortfolioAsset(r, id) ==
    /\ paReq[r].pc = "idle"
    /\ IF id \notin DOMAIN portfolioAsset
       THEN /\ PaRespond(r, "deletePortfolioAsset", 404)
            /\ UNCHANGED portfolioAsset
       ELSE /\ portfolioAsset' =
                   [i \in DOMAIN portfolioAsset \ {id} |-> portfolioAsset[i]]
            /\ PaRespond(r, "deletePortfolioAsset", 204)
    /\ UNCHANGED <<asset, nextPaId>>
    /\ PaFrame

PaNext ==
    \/ \E r \in PaSlots, p \in Portfolios \cup {"", "p9"}, a \in Assets \cup {"", "a9"},
          c \in PaRaw \cup {JsEmpty} :
            CreatePortfolioAssetBegin(r, p, a, c)
    \/ \E r \in PaSlots : CreatePortfolioAssetCheck(r)
    \/ \E r \in PaSlots, s \in PaRaw, c \in PaRaw, fk \in BOOLEAN :
            CreatePortfolioAssetWrite(r, s, c, fk)
    \/ \E r \in PaSlots, id \in PaIds : UpdatePortfolioAssetRead(r, id)
    \/ \E r \in PaSlots, s \in PaRaw, c \in PaRaw, v \in PaRaw :
            UpdatePortfolioAssetWrite(r, s, c, v)
    \/ \E r \in PaSlots, id \in PaIds : DeletePortfolioAsset(r, id)

\* db.portfolioAsset.count({ where: { assetId: id } })
InUse(id) == Cardinality({i \in DOMAIN portfolioAsset : portfolioAsset[i].assetId = id})

\* deleteAsset (part_002 193-209): the count of the references, 409 when
\* there is one
DeleteAssetCount(r, id) ==
    /\ paReq[r].pc = "idle"
    /\ IF InUse(id) > 0
       THEN PaRespond(r, "deleteAsset", 409)
       ELSE /\ paReq' = [paReq EXCEPT ![r] = [pc |-> "deleteAsset", id |-> id]]
            /\ UNCHANGED paRes
    /\ UNCHANGED <<asset, portfolioAsset, nextPaId>>
    /\ PaFrame

\* deleteAsset: db.asset.delete throws for a row that is gone and, with a
\* foreign key on PortfolioAsset.assetId (enforced), for a referenced row
DeleteAssetDelete(r, enforced) ==
    /\ paReq[r].pc = "deleteAsset"
    /\ LET id == paReq[r].id
       IN IF id \notin DOMAIN asset \/ (enforced /\ InUse(id) > 0)
          THEN /\ PaRespond(r, "deleteAsset", 500)
               /\ UNCHANGED asset
          ELSE /\ asset' = [a \in DOMAIN asset \ {id} |-> asset[a]]
               /\ PaRespond(r, "deleteAsset", 200)
    /\ UNCHANGED <<portfolioAsset, nextPaId>>
    /\ PaFrame

AssetDeleteNext ==
    \/ \E r \in PaSlots, p \in Portfolios \cup {""}, a \in Assets \cup {"a9"},
          c \in {JsUndefined, JsNumber(MaxNum)} :
            CreatePortfolioAssetBegin(r, p, a, c)
    \/ \E r \in PaSlots : CreatePortfolioAssetCheck(r)
    \/ \E r \in PaSlots, s \in PaRaw, c \in PaRaw, fk \in BOOLEAN :
            CreatePortfolioAssetWrite(r, s, c, fk)
    \/ \E r \in PaSlots, id \in Assets \cup {"a9"} : DeleteAssetCount(r, id)
    \/ \E r \in PaSlots, fk \in BOOLEAN : DeleteAssetDelete(r, fk)

(***************************************************************************)
(* Assets (part_002): createAsset and updateAsset                          *)
(***************************************************************************)
MaxAssetRows == 2
MaxAllocation == 100

\* the ids the database hands out to Asset rows, in this order
AssetIds == <<"a1", "a2", "a3">>

\* strings are sequences of characters
Whitespace == {" "}
UpperOf == [c \in {"a", "b", "c", "A", "B", " "} |->
               CASE c = "a" -> "A" [] c = "b" -> "B" [] c = "c" -> "C" [] OTHER -> c]

RECURSIVE TrimStart(_)
TrimStart(s) == IF s # << >> /\ Head(s) \in Whitespace THEN TrimStart(Tail(s)) ELSE s
RECURSIVE TrimEnd(_)
TrimEnd(s) ==
    IF s # << >> /\ s[Len(s)] \in Whitespace THEN TrimEnd(SubSeq(s, 1, Len(s) - 1)) ELSE s
Trim(s) == TrimEnd(TrimStart(s))
ToUpperCase(s) == [i \in DOMAIN s |-> UpperOf[s[i]]]

\* a symbol of a request body
JsString(s) == [kind |-> "string", s |-> s]
NotAString(kind) == [kind |-> kind, s |-> << >>]

\* sym?.trim().toUpperCase(): undefined for null and undefined, a TypeError
\* for a value without trim
normalizeSymbol(sym) ==
    CASE sym.kind \in {"undefined", "null"} -> [kind |-> "undefined", s |-> << >>]
      [] sym.kind = "string" -> JsString(ToUpperCase(Trim(sym.s)))
      [] OTHER -> [kind |-> "TypeError", s |-> << >>]

\* symbol || ""
OrEmpty(sym) ==
    IF sym.kind \in {"undefined", "null"} \/ sym = JsString(<< >>) THEN JsString(<< >>)
    ELSE sym

\* a number, NaN or an infinity
Finite(n) == [kind |-> "finite", n |-> n]
NotFinite(kind) == [kind |-> kind, n |-> 0]
JsInfinityStr == [kind |-> "infstr", n |-> 0]
JsPrefixed(n) == [kind |-> "prefixed", n |-> n]

\* parseFloat(v) of a string: the longest numeric prefix, NaN without one
JsParseFloat(v) ==
    CASE v.kind \in {"numstr", "prefixed"} -> Finite(v.n)
      [] v.kind = "infstr" -> NotFinite("Infinity")
      [] OTHER -> NotFinite("NaN")

\* Number(v) of a value that is not a string
JsNumberOf(v) ==
    CASE v.kind = "number" -> Finite(v.n)
      [] v.kind = "null" -> Finite(0)
      [] OTHER -> NotFinite("NaN")

IsJsString(v) == v.kind \in {"numstr", "prefixed", "infstr", "empty", "garbage"}

num(v, def) ==
    LET n == IF IsJsString(v) THEN JsParseFloat(v) ELSE JsNumberOf(v)
    IN IF n.kind = "finite" THEN n.n ELSE def

clampLow(n, min, max) == MaxOf(min, n)

clamp(n, min, max) == MinOf(max, MaxOf(min, n))

\* the unique key on Asset.symbol (P2002)
SymbolTaken(symbol, except) ==
    \E a \in DOMAIN asset : a # except /\ asset[a].symbol = symbol

\* createAsset (part_002 111-140); description and sector are given by
\* whether they are truthy
CreateAsset(symbol, described, sectored, allocationPercentage, costPerShare, closePrice, ok) ==
    LET sym == normalizeSymbol(OrEmpty(symbol))
        id == AssetIds[Cardinality(DOMAIN asset) + 1]
        status ==
            IF sym.kind = "TypeError" THEN 500
            ELSE IF sym.s = << >> \/ ~described \/ ~sectored THEN 400
            ELSE IF SymbolTaken(sym.s, "") THEN 409
            ELSE IF ~ok THEN 500
            ELSE 201
    IN /\ Cardinality(DOMAIN asset) < MaxAssetRows
       /\ asset' =
            IF status = 201
            THEN [a \in DOMAIN asset \cup {id} |->
                    IF a = id
                    THEN [symbol |-> sym.s,
                          allocationPercentage |->
                              clamp(num(allocationPercentage, 0), 0, MaxAllocation),
                          costPerShare |-> MaxOf(0, num(costPerShare, 0)),
                          closePrice |-> MaxOf(0, num(closePrice, 0))]
                    ELSE asset[a]]
            ELSE asset
       /\ paRes' = [op |-> "createAsset", status |-> status]
       /\ UNCHANGED <<portfolioAsset, nextPaId, paReq>>
       /\ PaFrame

\* updateAsset (part_002 145-188): db.asset.findUnique
UpdateAssetFind(r, id) ==
    /\ paReq[r].pc = "idle"
    /\ IF id \notin DOMAIN asset
       THEN PaRespond(r, "updateAsset", 404)
       ELSE /\ paReq' = [paReq EXCEPT ![r] = [pc |-> "updateAsset", id |-> id]]
            /\ UNCHANGED paRes
    /\ UNCHANGED <<asset, portfolioAsset, nextPaId>>
    /\ PaFrame

\* updateAsset: the fields of the body that are not undefined, then
\* db.asset.update; description and sector are "undefined", "empty" (a
\* falsy value) or "text"
UpdateAssetWrite(r, symbol, description, sector, allocationPercentage, costPerShare, closePrice, ok) ==
    /\ paReq[r].pc = "updateAsset"
    /\ LET id == paReq[r].id
           sym == normalizeSymbol(symbol)
           status ==
               IF symbol.kind # "undefined" /\ sym.kind = "TypeError" THEN 500
               ELSE IF symbol.kind # "undefined" /\ (sym.kind = "undefined" \/ sym.s = << >>)
               THEN 400
               ELSE IF description = "empty" \/ sector = "empty" THEN 400
               ELSE IF id \notin DOMAIN asset THEN 500
               ELSE IF symbol.kind # "undefined" /\ SymbolTaken(sym.s, id) THEN 409
               ELSE IF ~ok THEN 500
               ELSE 200
       IN /\ asset' =
               IF status = 200
               THEN [asset EXCEPT ![id] =
                       [symbol |-> IF symbol.kind # "undefined" THEN sym.s ELSE @.symbol,
                        allocationPercentage |->
                            IF allocationPercentage.kind # "undefined"
                            THEN clamp(num(allocationPercentage, 0), 0, MaxAllocation)
                            ELSE @.allocationPercentage,
                        costPerShare |->
                            IF costPerShare.kind # "undefined"
                            THEN MaxOf(0, num(costPerShare, 0)) ELSE @.costPerShare,
                        closePrice |->
                            IF closePrice.kind # "undefined"
                            THEN MaxOf(0, num(closePrice, 0)) ELSE @.closePrice]]
               ELSE asset
          /\ PaRespond(r, "updateAsset", status)
    /\ UNCHANGED <<portfolioAsset, nextPaId>>
    /\ PaFrame

SymbolInputs ==
    {NotAString("undefined"), NotAString("null"), NotAString("number"),
     JsString(<< >>), JsString(<<" ", " ">>), JsString(<<" ", "a", "b", " ">>),
     JsString(<<"A", "B">>), JsString(<<"c">>)}

AllocationInputs ==
    {JsUndefined, JsNull, JsEmpty, JsGarbage, JsInfinityStr, JsNumber(0 - 1),
     JsNumber(MaxAllocation + 1), JsNumStr(MaxAllocation + 1), JsPrefixed(0 - 1)}

PriceInputs == {JsUndefined, JsGarbage, JsNumber(0 - 1), JsNumStr(50)}

\* request bodies: every symbol, description and sector with the numbers
\* left out, and every combination of numbers under a valid symbol
AssetBodies ==
    [symbol : SymbolInputs, description : {"undefined", "empty", "text"},
     sector : {"empty", "text"},
     allocationPercentage : {JsUndefined}, costPerShare : {JsUndefined},
     closePrice : {JsUndefined}, ok : BOOLEAN]
    \cup
    [symbol : {JsString(<<" ", "a", "b", " ">>), JsString(<<"c">>)},
     description : {"text"}, sector : {"text"},
     allocationPercentage : AllocationInputs, costPerShare : PriceInputs,
     closePrice : {JsNumber(0 - 1), JsNumStr(50)}, ok : {TRUE}]

AssetNext ==
    \/ \E body \in AssetBodies :
            CreateAsset(body.symbol, body.description = "text", body.sector = "text",
                        body.allocationPercentage, body.costPerShare, body.closePrice,
                        body.ok)
    \/ \E r \in PaSlots, id \in {"a1", "a2", "a9"} : UpdateAssetFind(r, id)
    \/ \E r \in PaSlots, body \in AssetBodies :
            UpdateAssetWrite(r, body.symbol, body.description, body.sector,
                             body.allocationPercentage, body.costPerShare,
                             body.closePrice, body.ok)

\* an empty Asset table
AssetInit ==
    /\ asset = [a \in {} |-> [symbol |-> << >>]]
    /\ portfolioAsset = << >>
    /\ nextPaId = 1
    /\ paReq = [r \in PaSlots |-> PaIdle]
    /\ paRes = [op |-> "none", status |-> 0]

(***************************************************************************)
(* Activity log and its retention cleanup                                  *)
(* (controllers/users.ts: deleteOldLogs; index.ts: the handlers that log)  *)
(***************************************************************************)
MinLogAgeDays == 30
DefaultOlderThanDays == 90
MaxLogs == 2
MaxTicks == 3

Roles == {"USER", "ADMIN", "MANAGER", "SUPER_ADMIN"}
\* the caller's role, "" when req.user or its role is missing
Callers == {"", "ADMIN", "SUPER_ADMIN"}
TickSteps == {1, MinLogAgeDays, 2 * MinLogAgeDays}
DayInputs ==
    {JsUndefined, JsGarbage, JsNumber(-1), JsNumber(MinLogAgeDays - 1),
     JsNumber(MinLogAgeDays), JsNumStr(MinLogAgeDays + 1)}

LogIdle == [pc |-> "idle", days |-> 0, count |-> 0]

\* what no activity-log handler touches
LogFrame == UNCHANGED <<paVars, accessVars, reportVars, accountVars>>
NoLogRes == [status |-> 0, caller |-> "", raw |-> JsUndefined, days |-> NaN,
             deleted |-> 0, audited |-> FALSE]

LogInit ==
    /\ activityLog = {}
    /\ nextLogId = 1
    /\ now = 0
    /\ ticks = 0
    /\ cleanup = LogIdle
    /\ logRes = NoLogRes

\* time passes
Tick(d) ==
    /\ ticks < MaxTicks
    /\ now' = now + d
    /\ ticks' = ticks + 1
    /\ UNCHANGED <<activityLog, nextLogId, cleanup, logRes>>
    /\ LogFrame

\* db.activityLog.create: a new row stamped with the current time
LogCreate(action) ==
    /\ activityLog' = activityLog \cup
           {[id |-> nextLogId, createdAt |-> now, action |-> action]}
    /\ nextLogId' = nextLogId + 1

\* index.ts 126-197 and the other account handlers: a change is made and
\* one row is appended to the log
UpdateBasicProfile ==
    /\ nextLogId <= MaxLogs
    /\ LogCreate("PROFILE_UPDATE")
    /\ UNCHANGED <<now, ticks, cleanup, logRes>>
    /\ LogFrame

\* olderThanDays = "90" when the body has none, then parseInt
ParseOlderThanDays(raw) ==
    IF raw.kind = "undefined" THEN Num(DefaultOlderThanDays) ELSE JsParseInt(raw)

DaysTooFewInclusive(days) == (~days.nan) /\ days.n <= MinLogAgeDays

\* line 2093: days < 30, false for NaN
DaysTooFew(days) == (~days.nan) /\ days.n < MinLogAgeDays

OldLogsNewer(cutoff) == {l \in activityLog : l.createdAt > cutoff}

\* lines 2100-2104: createdAt < cutoffDate
OldLogs(cutoff) == {l \in activityLog : l.createdAt < cutoff}

\* lines 2085-2104: role gate, minimum age, then deleteMany, which succeeds
\* or throws; an invalid cutoff date makes it throw
DeleteOldLogsDelete(caller, raw, dbOk) ==
    /\ cleanup.pc = "idle"
    /\ nextLogId <= MaxLogs + 1
    /\ LET days == ParseOlderThanDays(raw)
           done(status) ==
               /\ logRes' = [status |-> status, caller |-> caller, raw |-> raw,
                             days |-> days, deleted |-> 0, audited |-> FALSE]
               /\ UNCHANGED <<activityLog, cleanup>>
       IN IF caller # "SUPER_ADMIN" THEN done(403)
          ELSE IF DaysTooFew(days) THEN done(400)
          ELSE IF days.nan \/ ~dbOk THEN done(500)
          ELSE LET old == OldLogs(now - days.n)
               IN /\ activityLog' = activityLog \ old
                  /\ cleanup' = [pc |-> "audit", days |-> days.n,
                                  count |-> Cardinality(old)]
                  /\ logRes' = [status |-> 0, caller |-> caller, raw |-> raw,
                                days |-> days, deleted |-> Cardinality(old),
                                audited |-> FALSE]
    /\ UNCHANGED <<nextLogId, now, ticks>>
    /\ LogFrame

\* lines 2106-2128: the maintenance action is logged, then 200; a create
\* that throws ends in 500
DeleteOldLogsAudit(dbOk) ==
    /\ cleanup.pc = "audit"
    /\ IF dbOk
       THEN /\ LogCreate("LOGS_CLEANUP")
            /\ logRes' = [logRes EXCEPT !.status = 200, !.audited = TRUE]
       ELSE /\ logRes' = [logRes EXCEPT !.status = 500]
            /\ UNCHANGED <<activityLog, nextLogId>>
    /\ cleanup' = LogIdle
    /\ UNCHANGED <<now, ticks>>
    /\ LogFrame

LogNext ==
    \/ \E d \in TickSteps : Tick(d)
    \/ UpdateBasicProfile
    \/ \E c \in Callers, raw \in DayInputs, ok \in BOOLEAN : DeleteOldLogsDelete(c, raw, ok)
    \/ \E ok \in BOOLEAN : DeleteOldLogsAudit(ok)

(***************************************************************************)
(* Role middleware and the report routers                                  *)
(* (middleware/roleMiddleware.ts, routes/FinancialreportsExportRoutes.ts)  *)
(***************************************************************************)
AccessFrame == UNCHANGED <<paVars, logVars, reportVars, accountVars>>

\* req.user: absent, or a record whose role may be missing ("")
NoUser == [present |-> FALSE, role |-> ""]
User(role) == [present |-> TRUE, role |-> role]
Users == {NoUser} \cup {User(r) : r \in Roles \cup {"", "GUEST"}}

\* what a middleware did: called next(), or sent one response
PassedOn ==
    [next |-> TRUE, status |-> 0, error |-> "", hasRequiredRoles |-> FALSE,
     requiredRoles |-> {}]
Denied(status, error, hasRequiredRoles, requiredRoles) ==
    [next |-> FALSE, status |-> status, error |-> error,
     hasRequiredRoles |-> hasRequiredRoles, requiredRoles |-> requiredRoles]

\* roleMiddleware.ts 28-63
requireRole(allowedRoles, user) ==
    IF ~user.present
    THEN Denied(401, "Authentication required", FALSE, {})
    ELSE IF user.role = ""
    THEN Denied(403, "Access denied", FALSE, {})
    ELSE IF user.role \notin allowedRoles
    THEN Denied(403, "Access denied", TRUE, allowedRoles)
    ELSE PassedOn

\* roleMiddleware.ts 69-85: the allow-lists of the shortcut factories
requireSuperAdmin == {"SUPER_ADMIN"}
requireAdmin == {"SUPER_ADMIN", "ADMIN"}
requireManager == {"SUPER_ADMIN", "ADMIN", "MANAGER"}

\* a requireRole middleware is built for an allow-list and run on a request
CallRequireRole(allowedRoles, user) ==
    /\ rr' = [called |-> TRUE, allowedRoles |-> allowedRoles, user |-> user,
              out |-> requireRole(allowedRoles, user)]
    /\ UNCHANGED http
    /\ AccessFrame

\* authenticateToken comes from @/lib/auth, whose code is not among the
\* sources: all that is known of it is that it is a middleware, so it either
\* answers the request itself or passes it on with some req.user
authenticateToken ==
    {[out |-> PassedOn, user |-> u] : u \in Users}
        \cup {[out |-> Denied(401, "Authentication required", FALSE, {}), user |-> NoUser]}

Use(fn) == [kind |-> "use", method |-> "", path |-> "", fn |-> fn]
Get(path, fn) == [kind |-> "route", method |-> "GET", path |-> path, fn |-> fn]

fExportRouterOpen ==
    << Use("authenticateToken"),
       Get("/deposits", "exportDepositsToExcel"),
       Get("/withdrawals", "exportWithdrawalsToExcel"),
       Get("/wallets", "exportWalletsToExcel"),
       Get("/comprehensive", "exportComprehensiveReportToExcel"),
       Use("requireRole") >>

\* FinancialreportsExportRoutes.ts 11-48, in registration order
fExportRouter ==
    << Use("authenticateToken"),
       Use("requireRole"),
       Get("/deposits", "exportDepositsToExcel"),
       Get("/withdrawals", "exportWithdrawalsToExcel"),
       Get("/wallets", "exportWalletsToExcel"),
       Get("/comprehensive", "exportComprehensiveReportToExcel") >>

\* FinancialreportsExportRoutes.ts 64-122, in registration order
fReportsRouter ==
    << Use("authenticateToken"),
       Use("requireRole"),
       Get("/deposits", "getDepositsReport"),
       Get("/withdrawals", "getWithdrawalsReport"),
       Get("/wallets", "getWalletsReport"),
       Get("/portfolios", "getPortfolioPerformanceReport"),
       Get("/activity", "getUserActivityReport"),
       Get("/summary", "getComprehensiveFinancialReport"),
       Get("/trends", "getTransactionTrendsReport") >>

\* lines 16 and 67: both routers use requireRole(["SUPER_ADMIN"])
RouterAllowedRoles == {"SUPER_ADMIN"}

Stack(router) == IF router = "export" THEN fExportRouter ELSE fReportsRouter

ExportControllers ==
    {"exportDepositsToExcel", "exportWithdrawalsToExcel", "exportWalletsToExcel",
     "exportComprehensiveReportToExcel"}
Paths ==
    {"/deposits", "/withdrawals", "/wallets", "/comprehensive", "/portfolios",
     "/activity", "/summary", "/trends", "/unknown"}

HttpIdle ==
    [stage |-> "idle", router |-> "", method |-> "", path |-> "",
     user |-> NoUser, idx |-> 0, trace |-> << >>, controller |-> "", status |-> 0,
     dbReads |-> 0, fileWrites |-> 0]

AccessInit ==
    /\ rr = [called |-> FALSE, allowedRoles |-> {}, user |-> NoUser, out |-> PassedOn]
    /\ http = HttpIdle

\* a request enters one of the two routers
Receive(router, method, path) ==
    /\ http.stage \in {"idle", "done"}
    /\ http' = [HttpIdle EXCEPT !.stage = "routing", !.router = router,
                                !.method = method, !.path = path, !.idx = 1]
    /\ UNCHANGED rr
    /\ AccessFrame

AtLayer == http.stage = "routing" /\ http.idx <= Len(Stack(http.router))
Layer == Stack(http.router)[http.idx]

Answer(out) ==
    IF out.next
    THEN [http EXCEPT !.idx = @ + 1]
    ELSE [http EXCEPT !.stage = "done", !.status = out.status]

\* router.use(authenticateToken)
AuthenticateTokenLayer ==
    /\ AtLayer
    /\ Layer.fn = "authenticateToken"
    /\ \E a \in authenticateToken :
          http' = [Answer(a.out) EXCEPT !.user = a.user,
                                        !.trace = Append(@, "authenticateToken")]
    /\ UNCHANGED rr
    /\ AccessFrame

\* router.use(requireRole(["SUPER_ADMIN"]))
RequireRoleLayer ==
    /\ AtLayer
    /\ Layer.fn = "requireRole"
    /\ LET out == requireRole(RouterAllowedRoles, http.user)
       IN http' = [Answer(out) EXCEPT !.trace = Append(@, "requireRole")]
    /\ UNCHANGED rr
    /\ AccessFrame

\* router.get(path, controller): the controller runs when method and path
\* match; it queries the database, and an export controller also writes
\* its workbook file
RouteLayer ==
    /\ AtLayer
    /\ Layer.kind = "route"
    /\ IF Layer.method = http.method /\ Layer.path = http.path
       THEN http' = [http EXCEPT !.stage = "done", !.controller = Layer.fn,
                                 !.status = 200, !.dbReads = 1,
                                 !.fileWrites =
                                     IF Layer.fn \in ExportControllers THEN 1 ELSE 0]
       ELSE http' = [http EXCEPT !.idx = @ + 1]
    /\ UNCHANGED rr
    /\ AccessFrame

\* no layer answered: the request falls through to the 404 handler
NotFound ==
    /\ http.stage = "routing"
    /\ http.idx > Len(Stack(http.router))
    /\ http' = [http EXCEPT !.stage = "done", !.status = 404]
    /\ UNCHANGED rr
    /\ AccessFrame

RoleNext ==
    \E a \in SUBSET Roles, u \in Users : CallRequireRole(a, u)

RouterNext ==
    \/ \E r \in {"export", "reports"}, m \in {"GET", "POST"}, p \in Paths :
          Receive(r, m, p)
    \/ AuthenticateTokenLayer
    \/ RequireRoleLayer
    \/ RouteLayer
    \/ NotFound

(***************************************************************************)
(* JavaScript number arithmetic on non-integers.                           *)
(* A binary64 value that is zero or positive with its 53-bit significand   *)
(* m (most significant bit first) and the exponent e of its last bit:      *)
(* the value is m * 2^e. Results are rounded to nearest, ties to even.     *)
(***************************************************************************)
SignificandBits == 53

F64Zero == [zero |-> TRUE, m |-> << >>, e |-> 0]


\* the n bits f[1..n] as a sequence
Bits(f, n) == IF n <= 0 THEN << >> ELSE SubSeq(f, 1, n)
Zeros(k) == Bits([i \in 1..k |-> 0], k)

StripZeros(b) ==
    IF \A i \in 1..Len(b) : b[i] = 0 THEN << >>
    ELSE LET k == CHOOSE i \in 1..Len(b) :
                      b[i] = 1 /\ \A j \in 1..(i - 1) : b[j] = 0
         IN SubSeq(b, k, Len(b))

\* binary digits of an integer 0 <= k < 2^30
BitLen(k) == CHOOSE L \in 1..30 : 2^(L - 1) <= k /\ k < 2^L
ToBits(k) ==
    IF k = 0 THEN << >>
    ELSE LET L == BitLen(k)
         IN Bits([i \in 1..L |-> (k \div 2^(L - i)) % 2], L)

\* b + 1
Increment(b) ==
    LET n == Len(b)
    IN IF \A i \in 1..n : b[i] = 1 THEN <<1>> \o Zeros(n)
       ELSE LET k == CHOOSE i \in 1..n :
                         b[i] = 0 /\ \A j \in (i + 1)..n : b[j] = 1
            IN Bits([i \in 1..n |-> IF i < k THEN b[i] ELSE IF i = k THEN 1 ELSE 0], n)

\* the exact value b * 2^e (b without leading zeros), plus something below
\* its last bit when sticky, rounded to 53 bits
F64Round(b, e, sticky) ==
    LET n == Len(b)
    IN IF n <= SignificandBits
       THEN [zero |-> FALSE, m |-> b \o Zeros(SignificandBits - n),
             e |-> e - (SignificandBits - n)]
       ELSE LET keep == SubSeq(b, 1, SignificandBits)
                guard == b[SignificandBits + 1]
                rest == sticky \/ \E i \in (SignificandBits + 2)..n : b[i] = 1
                up == guard = 1 /\ (rest \/ keep[SignificandBits] = 1)
                r == IF up THEN Increment(keep) ELSE keep
                e2 == e + (n - SignificandBits)
            IN IF Len(r) > SignificandBits
               THEN [zero |-> FALSE, m |-> SubSeq(r, 1, SignificandBits), e |-> e2 + 1]
               ELSE [zero |-> FALSE, m |-> r, e |-> e2]

F64FromInt(k) == IF k = 0 THEN F64Zero ELSE F64Round(ToBits(k), 0, FALSE)

\* 2^k mod n for 0 <= k <= 90, without leaving 32-bit integers
Pow2Mod(k, n) ==
    LET a == MinOf(k, 30)
        b == MinOf(k - a, 30)
        c == k - a - b
    IN ((((2^a % n) * (2^b % n)) % n) * (2^c % n)) % n

\* long division of s by n: the remainder after k fraction bits, and the
\* k-th fraction bit
DivRem(s, n, k) == ((s % n) * Pow2Mod(k, n)) % n
DivBit(s, n, k) == (2 * DivRem(s, n, k - 1)) \div n

\* s / n for integers 0 <= s < 2^30 and 0 < n < 2^15
F64Div(s, n) ==
    IF s = 0 THEN F64Zero
    ELSE LET k == SignificandBits + 2 + BitLen(n)
             frac == Bits([i \in 1..k |-> DivBit(s, n, i)], k)
         IN F64Round(StripZeros(ToBits(s \div n) \o frac), 0 - k, DivRem(s, n, k) # 0)

\* carry into bit i of a + b from the bits after it
CarryIn(a, b, i) ==
    \E j \in (i + 1)..Len(a) :
        /\ a[j] = 1 /\ b[j] = 1
        /\ \A k \in (i + 1)..(j - 1) : a[k] + b[k] >= 1

\* a + b for bit strings of one length; the result is one bit longer
AddBits(a, b) ==
    LET n == Len(a)
        c(i) == IF CarryIn(a, b, i) THEN 1 ELSE 0
    IN Bits([i \in 1..(n + 1) |->
                IF i = 1 THEN c(0) ELSE (a[i - 1] + b[i - 1] + c(i - 1)) % 2], n + 1)

\* b * c for an integer c >= 1, by shifting and adding
RECURSIVE MulBits(_, _)
MulBits(b, c) ==
    IF c = 1 THEN b
    ELSE LET h == MulBits(b, c \div 2) \o <<0>>
         IN IF c % 2 = 0 THEN h
            ELSE AddBits(h, Zeros(Len(h) - Len(b)) \o b)

\* x * c for an integer c >= 0
F64MulInt(x, c) ==
    IF x.zero \/ c = 0 THEN F64Zero
    ELSE F64Round(StripZeros(MulBits(x.m, c)), x.e, FALSE)

\* both significands written to the same last-bit exponent and length
Aligned(x, y) ==
    LET e == MinOf(x.e, y.e)
        xb == x.m \o Zeros(x.e - e)
        yb == y.m \o Zeros(y.e - e)
        n == MaxOf(Len(xb), Len(yb))
    IN [e |-> e, x |-> Zeros(n - Len(xb)) \o xb, y |-> Zeros(n - Len(yb)) \o yb]

\* x + y
F64Add(x, y) ==
    IF x.zero THEN y
    ELSE IF y.zero THEN x
    ELSE LET a == Aligned(x, y)
         IN F64Round(StripZeros(AddBits(a.x, a.y)), a.e, FALSE)

\* x <= y
F64Leq(x, y) ==
    IF x.zero THEN TRUE
    ELSE IF y.zero THEN FALSE
    ELSE LET a == Aligned(x, y)
         IN \/ a.x = a.y
            \/ \E i \in 1..Len(a.x) :
                  /\ a.x[i] < a.y[i]
                  /\ \A j \in 1..(i - 1) : a.x[j] = a.y[j]

(***************************************************************************)
(* Financial reports (users.ts, financialreportsExport.ts).                *)
(* Amounts are whole currency units, for which JavaScript sums and         *)
(* differences are exact; quotients are binary64 values. Times are hours   *)
(* since the start of day 0 (UTC); a date-only query string is midnight    *)
(* of its day.                                                             *)
(***************************************************************************)
MaxDeposits == 4
MaxWithdrawals == 3
MaxActivities == 12
MaxWallets == 12
MaxAssets == 3
HoursPerDay == 24

TxStatuses == <<"APPROVED", "PENDING", "REJECTED">>
DepositAmounts == <<1000, 500, 200, 700, 300>>
WithdrawalAmounts == <<1000, 300, 900, 600>>

\* the field a report groups by; "" stands for a missing, null or empty one
GroupFields == <<"MOBILE_MONEY", "", "Unknown", "", "BANK">>
Sectors == {"", "Technology", "Other", "Unknown"}

DepositRow(i) ==
    [id |-> i, amount |-> DepositAmounts[i], method |-> GroupFields[i],
     transactionStatus |-> TxStatuses[((i - 1) % 3) + 1],
     createdAt |-> 30 + 10 * (i - 1)]
WithdrawalRow(i) ==
    [id |-> i, amount |-> WithdrawalAmounts[i], bankName |-> GroupFields[i + 1],
     transactionStatus |-> TxStatuses[((i - 1) % 3) + 1],
     createdAt |-> 35 + 10 * (i - 1)]
DepositRows == {DepositRow(i) : i \in 1..MaxDeposits}
WithdrawalRows == {WithdrawalRow(i) : i \in 1..MaxWithdrawals}

\* query-string values: absent, "", a date-only string, some other string
JsDate(d) == [kind |-> "date", n |-> d]
DateInputs == {JsUndefined, JsGarbage, JsDate(1), JsDate(2), JsDate(3)}
StatusInputs == {"", "APPROVED", "BOGUS"}

Truthy(v) == v.kind \notin {"undefined", "null", "empty"}

\* new Date(string): a time, or an Invalid Date
InvalidDate == [valid |-> FALSE, time |-> 0]
NewDate(v) ==
    IF v.kind = "date" THEN [valid |-> TRUE, time |-> HoursPerDay * v.n]
    ELSE InvalidDate

parseDateFilters(startDate, endDate) ==
    IF ~Truthy(startDate) /\ ~Truthy(endDate)
    THEN [defined |-> FALSE, hasGte |-> FALSE, gte |-> InvalidDate,
          hasLte |-> FALSE, lte |-> InvalidDate]
    ELSE [defined |-> TRUE,
          hasGte |-> Truthy(startDate),
          gte |-> IF Truthy(startDate) THEN NewDate(startDate) ELSE InvalidDate,
          hasLte |-> Truthy(endDate),
          lte |-> IF Truthy(endDate) THEN NewDate(endDate) ELSE InvalidDate]

\* the database client rejects a query holding an Invalid Date or a value
\* outside the status enum
RejectedWhere(filter, status) ==
    \/ filter.hasGte /\ ~filter.gte.valid
    \/ filter.hasLte /\ ~filter.lte.valid
    \/ status # "" /\ \A i \in 1..Len(TxStatuses) : TxStatuses[i] # status

InFilter(filter, t) ==
    /\ filter.hasGte => t >= filter.gte.time
    /\ filter.hasLte => t <= filter.lte.time

findMany(table, filter, status) ==
    {r \in table : /\ InFilter(filter, r.createdAt)
                   /\ status # "" => r.transactionStatus = status}

\* orderBy: { createdAt: "desc" }
RECURSIVE OrderByCreatedAtDesc(_)
OrderByCreatedAtDesc(rows) ==
    IF rows = {} THEN << >>
    ELSE LET newest == CHOOSE r \in rows : \A q \in rows : q.createdAt <= r.createdAt
         IN <<newest>> \o OrderByCreatedAtDesc(rows \ {newest})

\* no orderBy: the rows in primary-key order
RECURSIVE OrderById(_)
OrderById(rows) ==
    IF rows = {} THEN << >>
    ELSE LET first == CHOOSE r \in rows : \A q \in rows : r.id <= q.id
         IN <<first>> \o OrderById(rows \ {first})

\* rows.reduce((sum, d) => sum + d.amount, 0)
RECURSIVE SumAmount(_)
SumAmount(rows) ==
    IF rows = << >> THEN 0
    ELSE SumAmount(SubSeq(rows, 1, Len(rows) - 1)) + rows[Len(rows)].amount

WithStatusAny(rows, status) == rows
WithStatus(rows, status) == SelectSeq(rows, LAMBDA d : d.transactionStatus = status)

\* createdAt.toISOString().split("T")[0]: the UTC day
IsoDate(t) == t \div HoursPerDay

\* one step of the dailyBreakdown reduce
AddToBucketOverwrite(acc, date, amount) ==
    [k \in DOMAIN acc \cup {date} |->
        IF k = date THEN [count |-> 1, amount |-> amount] ELSE acc[k]]

AddToBucket(acc, date, amount) ==
    LET old == IF date \in DOMAIN acc THEN acc[date] ELSE [count |-> 0, amount |-> 0]
    IN [k \in DOMAIN acc \cup {date} |->
           IF k = date THEN [count |-> old.count + 1, amount |-> old.amount + amount]
           ELSE acc[k]]

RECURSIVE DailyBreakdown(_, _)
DailyBreakdown(rows, acc) ==
    IF rows = << >> THEN acc
    ELSE DailyBreakdown(Tail(rows),
                        AddToBucket(acc, IsoDate(Head(rows).createdAt), Head(rows).amount))

NoBuckets == [k \in {} |-> [count |-> 0, amount |-> 0]]

AverageOrOne(total, count) == IF count > 0 THEN F64Div(total, count) ELSE F64FromInt(1)

\* rows.length > 0 ? total / rows.length : 0
Average(total, count) == IF count > 0 THEN F64Div(total, count) ELSE F64Zero

\* summary of getDepositsReport and getWithdrawalsReport
TxSummary(rows) ==
    LET pending == WithStatus(rows, "PENDING")
        approved == WithStatus(rows, "APPROVED")
        rejected == WithStatus(rows, "REJECTED")
    IN [totalCount |-> Len(rows),
        totalAmount |-> SumAmount(rows),
        pending |-> [count |-> Len(pending), amount |-> SumAmount(pending)],
        approved |-> [count |-> Len(approved), amount |-> SumAmount(approved)],
        rejected |-> [count |-> Len(rejected), amount |-> SumAmount(rejected)],
        average |-> Average(SumAmount(rows), Len(rows))]

ReportFrame == UNCHANGED <<paVars, logVars, accessVars, exportVars, accountVars>>
ExportFrame == UNCHANGED <<paVars, logVars, accessVars, accountVars>>

\* the report and export handlers only read the tables
ReadAndPurge == deposit' = {} /\ UNCHANGED <<withdrawal, activity, activityUsers, wallet, assetSectors>>
ReadOnly == UNCHANGED tables

NoReport == [kind |-> "none", status |-> 0]
Query(startDate, endDate, status) ==
    [startDate |-> startDate, endDate |-> endDate, status |-> status]
\* the catch block of every report controller
Failed(kind, query) == [kind |-> kind, status |-> 500, query |-> query]

\* one request is followed from its arrival to its response; the tables are
\* only read, so a later request would be answered from the same rows
Arrived == report = NoReport

NoAssets == assetSectors = [s \in Sectors |-> 0]
NoTx == deposit = {} /\ withdrawal = {} /\ wallet = {} /\ NoAssets
NoActivity == activity = [s \in {"SUCCESS", "FAILED", ""} |-> 0] /\ activityUsers = << >>

\* d.method || "Unknown", w.bankName || "Unknown", asset.sector || "Other"
GroupKeyRaw(field, fallback) == field
GroupKey(field, fallback) == IF field = "" THEN fallback ELSE field

GroupField(kind, r) == IF kind = "deposits" THEN r.method ELSE r.bankName

\* the byMethod and byBank reduces, lines 734-741 and 816-823
ByGroup(kind, rows) ==
    LET KeyOf(i) == GroupKey(GroupField(kind, rows[i]), "Unknown")
        of(k) == SelectSeq(rows, LAMBDA r : GroupKey(GroupField(kind, r), "Unknown") = k)
    IN [k \in {KeyOf(i) : i \in 1..Len(rows)} |->
          [count |-> Len(of(k)), amount |-> SumAmount(of(k))]]

\* users.ts 689-766 and 772-848: one read, then the aggregates
TxReport(kind, table, startDate, endDate, status, dbOk) ==
    LET filter == parseDateFilters(startDate, endDate)
        query == Query(startDate, endDate, status)
    IN IF RejectedWhere(filter, status) \/ ~dbOk THEN Failed(kind, query)
       ELSE LET rows == OrderByCreatedAtDesc(findMany(table, filter, status))
            IN [kind |-> kind, status |-> 200, query |-> query,
                summary |-> TxSummary(rows),
                byGroup |-> ByGroup(kind, rows),
                dailyBreakdown |-> DailyBreakdown(rows, NoBuckets),
                rows |-> rows]

GetDepositsReport(startDate, endDate, status, dbOk) ==
    /\ Arrived
    /\ report' = TxReport("deposits", deposit, startDate, endDate, status, dbOk)
    /\ ReadOnly
    /\ ReportFrame

GetWithdrawalsReport(startDate, endDate, status, dbOk) ==
    /\ Arrived
    /\ report' = TxReport("withdrawals", withdrawal, startDate, endDate, status, dbOk)
    /\ ReadOnly
    /\ ReportFrame

\* exact fractions num / den (den > 0) for the rounding done by the export
Rat(n) == [num |-> n, den |-> 1]
RatMulInt(r, c) == [num |-> r.num * c, den |-> r.den]
RatDivInt(k, c) == [num |-> k, den |-> c]
RatEq(r, s) == r.num * s.den = s.num * r.den
\* Math.round: the nearest integer, halves upward
MathRound(r) == (2 * r.num + r.den) \div (2 * r.den)

\* financialreportsExport.ts 31-33
formatCurrency(amount) == RatDivInt(MathRound(RatMulInt(Rat(amount), 100)), 100)

\* the approved rows of the period before the report window, as the two
\* aggregate queries of lines 1186-1206 select them
PreviousPeriod(table, filter) ==
    {r \in table :
        /\ r.transactionStatus = "APPROVED"
        /\ filter.hasGte =>
              /\ r.createdAt < filter.gte.time
              /\ r.createdAt >= filter.gte.time - (filter.lte.time - filter.gte.time)}

Abs(n) == IF n < 0 THEN 0 - n ELSE n
NoGrowth == [isNull |-> TRUE, kind |-> "null", negative |-> FALSE, percent |-> F64Zero]
\* The kind of a JavaScript quotient n / d of two integers: a division by
\* zero gives Infinity, -Infinity or NaN and never throws.
JsQuotientKind(n, d) ==
    IF d # 0 THEN "finite"
    ELSE IF n = 0 THEN "NaN"
    ELSE IF n > 0 THEN "Infinity" ELSE "-Infinity"
GrowthValue(current, previous) ==
    [isNull |-> FALSE, kind |-> JsQuotientKind(current - previous, previous),
     negative |-> current < previous,
     percent |-> IF previous > 0
                 THEN F64MulInt(F64Div(Abs(current - previous), previous), 100)
                 ELSE F64Zero]
\* The growth without its guard on the previous total.
GrowthUnguarded(current, previous) == GrowthValue(current, previous)
\* previous > 0 ? ((current - previous) / previous) * 100 : null
Growth(current, previous) ==
    IF previous > 0 THEN GrowthValue(current, previous) ELSE NoGrowth

NetCashFlowStatus(netCashFlow) == IF netCashFlow >= 0 THEN "POSITIVE" ELSE "NEGATIVE"

\* the seven reads of the Promise.all of lines 1142-1158 and the two
\* aggregates of lines 1186-1206
FanOutReads ==
    {"deposit", "withdrawal", "wallet", "user", "portfolio", "asset", "userPortfolio"}
PreviousPeriodReads == {"previousDeposits", "previousWithdrawals"}
ReadOutcomes == {"none"} \cup FanOutReads \cup PreviousPeriodReads

\* does the read that rejects (if one does) reject inside the try block:
\* the aggregates are only issued when there is a date filter
ReadRejectsFanOutOnly(failing, filter) == failing \in FanOutReads
ReadRejects(failing, filter) ==
    \/ failing \in FanOutReads
    \/ failing \in PreviousPeriodReads /\ filter.defined

\* users.ts 1134-1299
GetComprehensiveFinancialReport(startDate, endDate, failing) ==
    LET filter == parseDateFilters(startDate, endDate)
        query == [startDate |-> startDate, endDate |-> endDate, status |-> "",
                  failing |-> failing]
        dbOk == ~ReadRejects(failing, filter)
        \* dateFilter.lte!.getTime() on a filter without an end date
        typeError == filter.defined /\ filter.hasGte /\ ~filter.hasLte
        deposits == OrderById(findMany(deposit, filter, ""))
        withdrawals == OrderById(findMany(withdrawal, filter, ""))
        totalApprovedDeposits == SumAmount(WithStatus(deposits, "APPROVED"))
        totalApprovedWithdrawals == SumAmount(WithStatus(withdrawals, "APPROVED"))
        netCashFlow == totalApprovedDeposits - totalApprovedWithdrawals
        previousDeposits == SumAmount(OrderById(PreviousPeriod(deposit, filter)))
        previousWithdrawals == SumAmount(OrderById(PreviousPeriod(withdrawal, filter)))
    IN /\ Arrived
       /\ report' =
            IF RejectedWhere(filter, "") \/ ~dbOk \/ typeError
            THEN Failed("comprehensive", query)
            ELSE [kind |-> "comprehensive", status |-> 200, query |-> query,
                  deposits |-> [total |-> SumAmount(deposits),
                                approved |-> totalApprovedDeposits,
                                count |-> Len(deposits),
                                approvedCount |-> Len(WithStatus(deposits, "APPROVED"))],
                  withdrawals |-> [total |-> SumAmount(withdrawals),
                                   approved |-> totalApprovedWithdrawals,
                                   count |-> Len(withdrawals),
                                   approvedCount |-> Len(WithStatus(withdrawals, "APPROVED"))],
                  netCashFlow |-> [amount |-> netCashFlow,
                                   status |-> NetCashFlowStatus(netCashFlow)],
                  hasGrowthMetrics |-> filter.defined,
                  depositGrowth |->
                      IF filter.defined THEN Growth(totalApprovedDeposits, previousDeposits)
                      ELSE NoGrowth,
                  withdrawalGrowth |->
                      IF filter.defined
                      THEN Growth(totalApprovedWithdrawals, previousWithdrawals)
                      ELSE NoGrowth]
       /\ ReadOnly
       /\ ReportFrame

\* Temp files of the Excel exports (financialreportsExport.ts 180-189,
\* 308-317, 558-566, 651-659). Time is in seconds; a request starts shortly
\* before midnight UTC.
SecondsPerDay == 86400
DeleteDelay == 60
TickSeconds == 30
MaxExports == 2
ExportStart == SecondsPerDay - 2 * TickSeconds
MaxExportClock == SecondsPerDay + 2 * TickSeconds
ExportSlots == 1..MaxExports
ExportTypes == {"deposits", "withdrawals", "wallets"}

\* path.join(EXPORTS_DIR, `<type>_report_${new Date().toISOString().split("T")[0]}.xlsx`)
TempFilePath(type, t) == [type |-> type, day |-> t \div SecondsPerDay]
NoPath == [type |-> "", day |-> 0]

ExportIdle == [pc |-> "idle", path |-> NoPath, due |-> 0, err |-> FALSE, intact |-> TRUE]
NoExports ==
    /\ files = {}
    /\ exportReq = [slot \in ExportSlots |-> ExportIdle]
    /\ clock = ExportStart

\* an uncaught exception of a timer callback ends the process
Crashed == \E slot \in ExportSlots : exportReq[slot].pc = "threw"
Exists(path) == \E f \in files : f.path = path

\* await workbook.xlsx.writeFile(filepath), then res.download(filepath, ...)
WriteAndDownload(slot, type) ==
    LET filepath == TempFilePath(type, clock)
    IN /\ files' = {f \in files : f.path # filepath}
                      \cup {[path |-> filepath, owner |-> slot]}
       /\ exportReq' = [exportReq EXCEPT ![slot] = [ExportIdle EXCEPT !.pc = "sending",
                                                                      !.path = filepath]]
       /\ UNCHANGED clock

\* the catch block: nothing was written
ExportFailed(slot) ==
    /\ exportReq' = [exportReq EXCEPT ![slot] = [ExportIdle EXCEPT !.pc = "failed"]]
    /\ UNCHANGED <<files, clock>>

\* the worksheets of a workbook, in the order of the addWorksheet calls
Sheets(type) ==
    CASE type = "deposits" -> <<"Summary", "Deposits Details">>
      [] type = "withdrawals" -> <<"Summary", "Withdrawals Details">>
      [] type = "wallets" -> <<"Wallets Report">>
      [] type = "comprehensive_financial" ->
            <<"Executive Summary", "Deposits", "Withdrawals", "Wallets", "Portfolios">>

\* take: 10000 of exportActivityLogs
ExportTake == 10000

\* how many rows of the table match the where clause of an export
MatchingCounts == {0, ExportTake, ExportTake + 1}

\* findMany({ where, take }) returns the first take matching rows
FindManyTake(matching, take) == MinOf(matching, take)

\* findMany({ where }) returns every matching row
FindManyAll(matching) == matching

\* exportDepositsToExcel, exportWithdrawalsToExcel, exportWalletsToExcel:
\* the query and the workbook succeed or throw, then the temp file
ExportToExcel(slot, type, matching, ok) ==
    /\ ~Crashed
    /\ exportReq[slot].pc = "idle"
    /\ IF ok THEN WriteAndDownload(slot, type) ELSE ExportFailed(slot)
    /\ report' = IF ok
                 THEN [kind |-> "excel", type |-> type, status |-> 200,
                       sheets |-> Sheets(type),
                       matching |-> matching,
                       read |-> FindManyAll(matching)]
                 ELSE [kind |-> "excel", type |-> type, status |-> 500]
    /\ ReadOnly
    /\ ExportFrame

\* users.ts 1943-2024: the role check, one findMany with take, then the
\* logs as CSV or JSON
ExportActivityLogs(role, format, matching, ok) ==
    /\ ~Crashed
    /\ report' =
         IF role \notin {"SUPER_ADMIN", "ADMIN"}
         THEN [kind |-> "activityExport", status |-> 403]
         ELSE IF ~ok THEN [kind |-> "activityExport", status |-> 500]
         ELSE [kind |-> "activityExport", status |-> 200, format |-> format,
               matching |-> matching,
               read |-> FindManyTake(matching, ExportTake)]
    /\ UNCHANGED exportVars
    /\ ReadOnly
    /\ ExportFrame

\* the callback of res.download: the transfer ended, with or without an
\* error; setTimeout(() => fs.unlinkSync(filepath), 60000)
DownloadCallback(slot, err) ==
    /\ ~Crashed
    /\ exportReq[slot].pc = "sending"
    /\ exportReq' = [exportReq EXCEPT
          ![slot] = [@ EXCEPT !.pc = "scheduled", !.due = clock + DeleteDelay,
                              !.err = err,
                              !.intact = ([path |-> exportReq[slot].path,
                                             owner |-> slot] \in files)]]
    /\ UNCHANGED <<files, clock, report>>
    /\ ReadOnly
    /\ ExportFrame

\* the timer fires: fs.unlinkSync(filepath) removes the file, or throws
\* ENOENT when there is none
UnlinkTimer(slot) ==
    /\ ~Crashed
    /\ exportReq[slot].pc = "scheduled"
    /\ clock >= exportReq[slot].due
    /\ IF Exists(exportReq[slot].path)
       THEN /\ files' = {f \in files : f.path # exportReq[slot].path}
            /\ exportReq' = [exportReq EXCEPT ![slot].pc = "deleted"]
       ELSE /\ files' = files
            /\ exportReq' = [exportReq EXCEPT ![slot].pc = "threw"]
    /\ UNCHANGED <<clock, report>>
    /\ ReadOnly
    /\ ExportFrame

\* time passes while a request is under way; a timer that is due runs first
ExportTick ==
    /\ ~Crashed
    /\ \E slot \in ExportSlots : exportReq[slot].pc \in {"sending", "scheduled"}
    /\ \A slot \in ExportSlots :
          exportReq[slot].pc = "scheduled" => clock < exportReq[slot].due
    /\ \/ clock < MaxExportClock
       \/ \E slot \in ExportSlots : exportReq[slot].pc = "scheduled"
    /\ clock' = clock + TickSeconds
    /\ UNCHANGED <<files, exportReq, report>>
    /\ ReadOnly
    /\ ExportFrame

\* financialreportsExport.ts 327-571: the rows of the first sheet
ExportComprehensiveReportToExcel(startDate, endDate, dbOk) ==
    LET filter == parseDateFilters(startDate, endDate)
        query == Query(startDate, endDate, "")
        deposits == OrderById(findMany(deposit, filter, ""))
        withdrawals == OrderById(findMany(withdrawal, filter, ""))
        approvedDeposits == WithStatus(deposits, "APPROVED")
        approvedWithdrawals == WithStatus(withdrawals, "APPROVED")
        netCashFlow == SumAmount(approvedDeposits) - SumAmount(approvedWithdrawals)
        slot == CHOOSE x \in ExportSlots : exportReq[x].pc = "idle"
    IN /\ Arrived
       /\ ~Crashed
       /\ \E x \in ExportSlots : exportReq[x].pc = "idle"
       /\ IF RejectedWhere(filter, "") \/ ~dbOk
          THEN ExportFailed(slot)
          ELSE WriteAndDownload(slot, "comprehensive_financial")
       /\ report' =
            IF RejectedWhere(filter, "") \/ ~dbOk
            THEN Failed("comprehensiveExcel", query)
            ELSE [kind |-> "comprehensiveExcel", status |-> 200, query |-> query,
                  sheets |-> Sheets("comprehensive_financial"),
                  totalDepositsCount |-> Len(deposits),
                  totalDepositsAmount |-> formatCurrency(SumAmount(deposits)),
                  approvedDeposits |-> Len(approvedDeposits),
                  approvedDepositsAmount |-> formatCurrency(SumAmount(approvedDeposits)),
                  totalWithdrawalsCount |-> Len(withdrawals),
                  totalWithdrawalsAmount |-> formatCurrency(SumAmount(withdrawals)),
                  approvedWithdrawals |-> Len(approvedWithdrawals),
                  approvedWithdrawalsAmount |->
                      formatCurrency(SumAmount(approvedWithdrawals)),
                  netCashFlow |-> formatCurrency(netCashFlow),
                  flowStatus |-> NetCashFlowStatus(netCashFlow)]
       /\ ReadOnly
       /\ ExportFrame

TopCount == 10

\* Array.prototype.sort with a comparator b.metric - a.metric: descending,
\* and stable, so entries the comparator calls equal keep their order
StableSortDescReversed(s, metric) ==
    LET Before(i) == {j \in 1..Len(s) :
                        \/ s[j][metric] > s[i][metric]
                        \/ s[j][metric] = s[i][metric] /\ j > i}
    IN [k \in 1..Len(s) |-> s[CHOOSE i \in 1..Len(s) : Cardinality(Before(i)) = k - 1]]
StableSortDesc(s, metric) ==
    LET Before(i) == {j \in 1..Len(s) :
                        \/ s[j][metric] > s[i][metric]
                        \/ s[j][metric] = s[i][metric] /\ j < i}
    IN [k \in 1..Len(s) |-> s[CHOOSE i \in 1..Len(s) : Cardinality(Before(i)) = k - 1]]

\* .slice(0, n)
Slice(s, n) == SubSeq(s, 1, MinOf(n, Len(s)))

WalletStatuses == <<"ACTIVE", "INACTIVE", "FROZEN">>
WalletRow(i) ==
    [id |-> i, balance |-> 100 * ((7 * i) % 5),
     status |-> WalletStatuses[((i - 1) % 3) + 1], createdAt |-> i]
WalletRows == {WalletRow(i) : i \in 1..MaxWallets}

WalletsWhere(status) ==
    {w \in wallet : status # "" => w.status = status}

RECURSIVE SumBalance(_)
SumBalance(rows) ==
    IF rows = << >> THEN 0
    ELSE SumBalance(SubSeq(rows, 1, Len(rows) - 1)) + rows[Len(rows)].balance

\* users.ts 854-909
GetWalletsReport(status, dbOk) ==
    LET wallets == OrderByCreatedAtDesc(WalletsWhere(status))
        of(st) == SelectSeq(wallets, LAMBDA w : w.status = st)
        query == Query(JsUndefined, JsUndefined, status)
    IN /\ Arrived
       /\ report' =
            IF ~dbOk THEN Failed("wallets", query)
            ELSE [kind |-> "wallets", status |-> 200, query |-> query,
                  totalWallets |-> Len(wallets),
                  totalBalance |-> SumBalance(wallets),
                  averageBalance |-> Average(SumBalance(wallets), Len(wallets)),
                  byStatus |-> [st \in {"ACTIVE", "INACTIVE", "FROZEN"} |->
                                   [count |-> Len(of(st)),
                                    totalBalance |-> SumBalance(of(st))]],
                  topWallets |-> Slice(StableSortDesc(wallets, "balance"), TopCount),
                  wallets |-> wallets]
       /\ ReadOnly
       /\ ReportFrame

\* the sectorBreakdown reduce, lines 1000-1007: how many assets per sector key
SectorBreakdown(sectors) ==
    [k \in {GroupKey(x, "Other") : x \in {y \in DOMAIN sectors : sectors[y] > 0}} |->
        LET merged == {y \in DOMAIN sectors : sectors[y] > 0 /\ GroupKey(y, "Other") = k}
        IN [count |-> IF k = "Other" THEN (IF "" \in merged THEN sectors[""] ELSE 0)
                                         + (IF "Other" \in merged THEN sectors["Other"] ELSE 0)
                      ELSE sectors[k]]]

\* users.ts 916-1023: the assets part
GetPortfolioPerformanceReport(dbOk) ==
    /\ Arrived
    /\ report' =
         IF ~dbOk THEN Failed("portfolios", Query(JsUndefined, JsUndefined, ""))
         ELSE [kind |-> "portfolios", status |-> 200,
               totalAssets |-> assetSectors[""] + assetSectors["Technology"]
                                 + assetSectors["Other"] + assetSectors["Unknown"],
               sectorBreakdown |-> SectorBreakdown(assetSectors)]
    /\ ReadOnly
    /\ ReportFrame

\* a.status || "Unknown"
StatusKey(status) == IF status = "" THEN "Unknown" ELSE status

\* lines 1069-1074: how many rows per status key
ByStatus(rows) ==
    [k \in {StatusKey(s) : s \in {t \in DOMAIN rows : rows[t] > 0}} |->
        IF k = "Unknown" THEN rows[""] ELSE rows[k]]

\* byStatus[key] || 0
CountOf(byStatus, key) == IF key \in DOMAIN byStatus THEN byStatus[key] ELSE 0

\* rows.length > 0 ? (count / rows.length) * 100 : 0
Rate(count, total) == IF total > 0 THEN F64MulInt(F64Div(count, total), 100) ELSE F64Zero

\* users.ts 1029-1128; every row of the table is within the 1000 taken
GetUserActivityReport(dbOk) ==
    LET total == activity["SUCCESS"] + activity["FAILED"] + activity[""]
        byStatus == ByStatus(activity)
        \* Object.values of the reduce of lines 1090-1095
        userActivityCount ==
            [u \in 1..Len(activityUsers) |-> [user |-> u, count |-> activityUsers[u]]]
    IN /\ Arrived
       /\ report' =
            IF ~dbOk THEN Failed("activity", Query(JsUndefined, JsUndefined, ""))
            ELSE [kind |-> "activity", status |-> 200,
                  totalActivities |-> total,
                  successRate |-> Rate(CountOf(byStatus, "SUCCESS"), total),
                  failureRate |-> Rate(CountOf(byStatus, "FAILED"), total),
                  byStatus |-> byStatus,
                  uniqueUsers |-> Len(activityUsers),
                  userActivityCount |-> userActivityCount,
                  topActiveUsers |->
                      Slice(StableSortDesc(userActivityCount, "count"), TopCount)]
       /\ ReadOnly
       /\ ReportFrame

TxTables ==
    /\ deposit \in SUBSET DepositRows
    /\ withdrawal \in SUBSET WithdrawalRows
    /\ wallet = {}
    /\ NoAssets
    /\ NoActivity
    /\ report = NoReport
    /\ NoExports

\* Time is counted in hours from 00:00 UTC of day 0, a Sunday (2024-01-07);
\* the process's time zone is a fixed offset from UTC, in hours.
DaysPerWeek == 7
EpochDayOfMonth == 7
JanuaryDays == 31
TzOffsets == {0 - 5, 0, 3}
DefaultLimit == 30
TrendNow == 240

\* date.getDay(): the day of the week of the local calendar day, 0 = Sunday
GetDay(t, tz) == ((t + tz) \div HoursPerDay) % DaysPerWeek
\* date.getMonth() + 1 of the local calendar day (January or February 2024)
GetMonth(t, tz) ==
    IF ((t + tz) \div HoursPerDay) + EpochDayOfMonth <= JanuaryDays THEN 1 ELSE 2

\* getGroupKey, lines 1326-1335. setDate moves the local calendar day and
\* keeps the local time of day; toISOString then gives the UTC day.
DayKey(n) == [unit |-> "day", n |-> n]
MonthKey(n) == [unit |-> "month", n |-> n]
getGroupKey(period, t, tz) ==
    IF period = "weekly" THEN DayKey(IsoDate(t - HoursPerDay * GetDay(t, tz)))
    ELSE IF period = "monthly" THEN MonthKey(GetMonth(t, tz))
    ELSE DayKey(IsoDate(t))

\* parseInt(limit, 10) || 30, limit defaulting to "30"
LimitNum(limit) ==
    LET parsed == JsParseInt(IF limit.kind = "undefined" THEN JsNumStr(DefaultLimit)
                             ELSE limit)
    IN IF parsed.nan \/ parsed.n = 0 THEN DefaultLimit ELSE parsed.n

\* where: { createdAt: { gte: startDate } }
Since(table, startDate) == {r \in table : r.createdAt >= startDate}

\* the two forEach loops and the netFlow pass, lines 1339-1356
Trends(period, deposits, withdrawals, tz) ==
    LET keys == {getGroupKey(period, r.createdAt, tz) : r \in deposits \cup withdrawals}
        of(rows, k) == {r \in rows : getGroupKey(period, r.createdAt, tz) = k}
    IN [k \in keys |->
          LET d == OrderById(of(deposits, k))
              w == OrderById(of(withdrawals, k))
          IN [deposits |-> SumAmount(d), withdrawals |-> SumAmount(w),
              netFlow |-> SumAmount(d) - SumAmount(w),
              depositCount |-> Len(d), withdrawalCount |-> Len(w)]]

RECURSIVE SumOver(_, _)
SumOver(trends, field) ==
    IF DOMAIN trends = {} THEN 0
    ELSE LET k == CHOOSE x \in DOMAIN trends : TRUE
         IN trends[k][field]
              + SumOver([x \in DOMAIN trends \ {k} |-> trends[x]], field)

PeriodInputs == {"", "daily", "weekly", "monthly", "yearly"}
LimitInputs == {JsUndefined, JsGarbage, JsNumStr(0), JsNumStr(3), JsNumStr(30)}

\* users.ts 1305-1393
GetTransactionTrendsReport(periodRaw, limit, tz, dbOk) ==
    LET period == IF periodRaw = "" THEN "daily" ELSE periodRaw
        startDate == TrendNow - HoursPerDay * LimitNum(limit)
        deposits == Since(deposit, startDate)
        withdrawals == Since(withdrawal, startDate)
        trends == Trends(period, deposits, withdrawals, tz)
        totalDeposits == SumOver(trends, "deposits")
        totalWithdrawals == SumOver(trends, "withdrawals")
        dataPoints == Cardinality(DOMAIN trends)
        query == [period |-> periodRaw, limit |-> limit, tz |-> tz]
    IN /\ Arrived
       /\ report' =
            IF ~dbOk THEN Failed("trends", query)
            ELSE [kind |-> "trends", status |-> 200, query |-> query,
                  period |-> period,
                  startDate |-> startDate,
                  trends |-> trends,
                  totalDeposits |-> totalDeposits,
                  totalWithdrawals |-> totalWithdrawals,
                  netFlow |-> totalDeposits - totalWithdrawals,
                  averageDeposits |-> Average(totalDeposits, dataPoints),
                  averageWithdrawals |-> Average(totalWithdrawals, dataPoints),
                  dataPoints |-> dataPoints]
       /\ ReadOnly
       /\ ReportFrame

\* rows around the turn of two weeks: late on a Sunday, on the Monday after,
\* late on the Saturday, early on the next Sunday, and three days later
TrendDepositTimes == <<22, 33, 167, 169, 204>>
TrendWithdrawalTimes == <<58, 164, 1, 220>>
TrendDepositRow(i) == [DepositRow(i) EXCEPT !.createdAt = TrendDepositTimes[i]]
TrendWithdrawalRow(i) == [WithdrawalRow(i) EXCEPT !.createdAt = TrendWithdrawalTimes[i]]

TrendTables ==
    /\ deposit \in SUBSET {TrendDepositRow(i) : i \in 1..MaxDeposits}
    /\ withdrawal \in SUBSET {TrendWithdrawalRow(i) : i \in 1..MaxWithdrawals}
    /\ wallet = {}
    /\ NoAssets
    /\ NoActivity
    /\ report = NoReport
    /\ NoExports

TrendNext ==
    \E p \in PeriodInputs, l \in LimitInputs, tz \in TzOffsets, ok \in BOOLEAN :
        GetTransactionTrendsReport(p, l, tz, ok)

\* Pagination of the list endpoints. Math.max and Math.min give NaN as soon
\* as one argument is NaN.
JsMax(a, b) == IF a.nan \/ b.nan THEN NaN ELSE Num(MaxOf(a.n, b.n))
JsMin(a, b) == IF a.nan \/ b.nan THEN NaN ELSE Num(MinOf(a.n, b.n))
\* x || d on a number: NaN and 0 are falsy
OrElse(x, d) == IF x.nan \/ x.n = 0 THEN Num(d) ELSE x
\* a destructuring default, and v ?? d on a query value
Defaulted(v, d) == IF v.kind \in {"undefined", "null"} THEN JsNumStr(d) ELSE v

DefaultPage == 1
DefaultPageSize == 20
MaxPageSize == 100
AuditTrailDefaultLimit == 50
SystemLogsDefaultLimit == 100
SystemLogsMaxLimit == 200
LargePage == 1000
LargeLimit == 5000

\* part_002 lines 37-38
ListAssetsPage(page) == JsMax(Num(1), OrElse(JsParseInt(Defaulted(page, DefaultPage)), 1))
ListAssetsPageSize(pageSize) ==
    JsMin(Num(MaxPageSize),
          JsMax(Num(1), OrElse(JsParseInt(Defaulted(pageSize, DefaultPageSize)),
                               DefaultPageSize)))

\* parseInt(page, 10) and Math.min(parseInt(limit, 10), cap)
PageNum(page) == JsParseInt(Defaulted(page, DefaultPage))
LimitNumCapped(limit, default, cap) == JsMin(JsParseInt(Defaulted(limit, default)), Num(cap))
\* index.ts 653: no cap
LimitNumUncapped(limit, default) == JsParseInt(Defaulted(limit, default))

PageHandlers ==
    {"listAssets", "getRecentActivity", "getAuditTrail", "getSystemLogs",
     "getUserActivity", "getAccountActivity"}

EffectivePage(handler, page) ==
    IF handler = "listAssets" THEN ListAssetsPage(page) ELSE PageNum(page)

EffectivePageSize(handler, limit) ==
    CASE handler = "listAssets" -> ListAssetsPageSize(limit)
      [] handler = "getRecentActivity" -> LimitNumCapped(limit, DefaultPageSize, MaxPageSize)
      [] handler = "getAuditTrail" ->
            LimitNumCapped(limit, AuditTrailDefaultLimit, MaxPageSize)
      [] handler = "getSystemLogs" ->
            LimitNumCapped(limit, SystemLogsDefaultLimit, SystemLogsMaxLimit)
      [] handler = "getUserActivity" -> LimitNumCapped(limit, DefaultPageSize, MaxPageSize)
      [] handler = "getAccountActivity" -> LimitNumUncapped(limit, DefaultPageSize)

\* what the handler answers when the caller fails its own check
DeniedStatus(handler) ==
    CASE handler \in {"getRecentActivity", "getAccountActivity"} -> 401
      [] handler \in {"getAuditTrail", "getSystemLogs", "getUserActivity"} -> 403
      [] OTHER -> 0

\* skip: (page - 1) * pageSize, take: pageSize; the query is refused when
\* one of them is not an integer or skip is negative
QueryRefused(page, pageSize) ==
    page.nan \/ pageSize.nan \/ (page.n - 1) * pageSize.n < 0

PageInputs ==
    {JsUndefined, JsEmpty, JsGarbage, JsNumStr(0 - 1), JsNumStr(0), JsNumStr(1),
     JsNumStr(2), JsNumStr(LargePage)}
LimitInputs20 ==
    {JsUndefined, JsEmpty, JsGarbage, JsNumStr(0 - 1), JsNumStr(0), JsNumStr(1),
     JsNumStr(MaxPageSize), JsNumStr(MaxPageSize + 1), JsNumStr(LargeLimit)}

\* one list request: the caller's check, the pagination, the query
ListRequest(handler, page, limit, allowed, dbOk) ==
    LET pageNum == EffectivePage(handler, page)
        limitNum == EffectivePageSize(handler, limit)
        query == [handler |-> handler, page |-> page, limit |-> limit]
    IN /\ Arrived
       /\ allowed \/ DeniedStatus(handler) # 0
       /\ report' =
            IF ~allowed
            THEN [kind |-> "list", status |-> DeniedStatus(handler), query |-> query,
                  paginated |-> FALSE, page |-> NaN, pageSize |-> NaN]
            ELSE [kind |-> "list", query |-> query, paginated |-> TRUE,
                  status |-> IF QueryRefused(pageNum, limitNum) \/ ~dbOk THEN 500 ELSE 200,
                  page |-> pageNum, pageSize |-> limitNum]
       /\ ReadOnly
       /\ ReportFrame

ListNext ==
    \E h \in PageHandlers, p \in PageInputs, l \in LimitInputs20,
       allowed \in BOOLEAN, ok \in BOOLEAN : ListRequest(h, p, l, allowed, ok)

\* the ways n rows are spread over users: every user has one row, except
\* for at most two users who have two
UserCounts(n) ==
    {c \in UNION {[1..u -> {1, 2}] : u \in 0..n} :
        /\ Cardinality({i \in DOMAIN c : c[i] = 2}) <= 2
        /\ Len(c) + Cardinality({i \in DOMAIN c : c[i] = 2}) = n}

\* either transactions or assets are stored
GroupTables ==
    /\ \/ /\ deposit \in SUBSET DepositRows
          /\ withdrawal \in SUBSET WithdrawalRows
          /\ NoAssets
       \/ /\ deposit = {}
          /\ withdrawal = {}
          /\ assetSectors \in {a \in [Sectors -> 0..MaxAssets] :
                                 a[""] + a["Technology"] + a["Other"] + a["Unknown"]
                                    <= MaxAssets}
    /\ wallet = {}
    /\ NoActivity
    /\ report = NoReport
    /\ NoExports

WalletTable ==
    /\ deposit = {}
    /\ withdrawal = {}
    /\ NoActivity
    /\ NoAssets
    /\ wallet \in SUBSET WalletRows
    /\ report = NoReport
    /\ NoExports

ActivityRows ==
    /\ NoTx
    /\ activity \in {a \in [{"SUCCESS", "FAILED", ""} -> 0..MaxActivities] :
                        a["SUCCESS"] + a["FAILED"] + a[""] <= MaxActivities}
    /\ activityUsers \in
          UserCounts(activity["SUCCESS"] + activity["FAILED"] + activity[""])
    /\ report = NoReport
    /\ NoExports

ReportInit == NoTx /\ NoActivity /\ report = NoReport /\ NoExports

TxReportNext ==
    \/ \E s \in DateInputs, e \in DateInputs, st \in StatusInputs, ok \in BOOLEAN :
          GetDepositsReport(s, e, st, ok)
    \/ \E s \in DateInputs, e \in DateInputs, st \in StatusInputs, ok \in BOOLEAN :
          GetWithdrawalsReport(s, e, st, ok)

CashFlowNext ==
    \/ \E s \in DateInputs, e \in DateInputs, failing \in ReadOutcomes :
          GetComprehensiveFinancialReport(s, e, failing)
    \/ \E s \in DateInputs, e \in DateInputs, ok \in BOOLEAN :
          ExportComprehensiveReportToExcel(s, e, ok)
    \/ \E slot \in ExportSlots, err \in BOOLEAN : DownloadCallback(slot, err)
    \/ \E slot \in ExportSlots : UnlinkTimer(slot)
    \/ ExportTick

ExportNext ==
    \/ \E slot \in ExportSlots, type \in ExportTypes, n \in MatchingCounts, ok \in BOOLEAN :
          ExportToExcel(slot, type, n, ok)
    \/ \E role \in {"", "USER", "ADMIN", "SUPER_ADMIN"}, format \in {"json", "csv"},
          n \in MatchingCounts, ok \in BOOLEAN :
          ExportActivityLogs(role, format, n, ok)
    \/ \E slot \in ExportSlots, err \in BOOLEAN : DownloadCallback(slot, err)
    \/ \E slot \in ExportSlots : UnlinkTimer(slot)
    \/ ExportTick

GroupNext ==
    \/ \E s \in DateInputs, e \in DateInputs, st \in StatusInputs, ok \in BOOLEAN :
          GetDepositsReport(s, e, st, ok)
    \/ \E s \in DateInputs, e \in DateInputs, st \in StatusInputs, ok \in BOOLEAN :
          GetWithdrawalsReport(s, e, st, ok)
    \/ \E ok \in BOOLEAN : GetPortfolioPerformanceReport(ok)

WalletNext == \E st \in {"", "ACTIVE", "BOGUS"}, ok \in BOOLEAN : GetWalletsReport(st, ok)

ActivityNext == \E ok \in BOOLEAN : GetUserActivityReport(ok)

\* the seven report handlers of users.ts
ReportsNext ==
    \/ \E s \in DateInputs, e \in DateInputs, st \in StatusInputs, ok \in BOOLEAN :
          GetDepositsReport(s, e, st, ok)
    \/ \E s \in DateInputs, e \in DateInputs, st \in StatusInputs, ok \in BOOLEAN :
          GetWithdrawalsReport(s, e, st, ok)
    \/ \E st \in {"", "ACTIVE", "BOGUS"}, ok \in BOOLEAN : GetWalletsReport(st, ok)
    \/ \E ok \in BOOLEAN : GetPortfolioPerformanceReport(ok)
    \/ \E ok \in BOOLEAN : GetUserActivityReport(ok)
    \/ \E s \in DateInputs, e \in DateInputs, failing \in ReadOutcomes :
          GetComprehensiveFinancialReport(s, e, failing)
    \/ \E p \in PeriodInputs, l \in LimitInputs, tz \in TzOffsets, ok \in BOOLEAN :
          GetTransactionTrendsReport(p, l, tz, ok)

(***************************************************************************)
(* generateKeyInsights (users.ts 1399-1428)                                *)
(***************************************************************************)
MaxTotal == 4
PendingThreshold == 10

\* totals of stored amounts; a stored amount may be negative
Totals == (0 - 2)..MaxTotal

Metrics ==
    [netCashFlow : {0 - 1, 0, 1},
     pendingUsers : {0, PendingThreshold, PendingThreshold + 1},
     totalDeposits : Totals,
     totalWithdrawals : Totals]

StrongDepositsOrEqual(totalDeposits, totalWithdrawals) ==
    2 * totalDeposits >= 3 * totalWithdrawals

\* totalDeposits > totalWithdrawals * 1.5: the product of a whole number
\* with 1.5 is exact in binary64, so the test is 2 d > 3 w
StrongDeposits(totalDeposits, totalWithdrawals) ==
    2 * totalDeposits > 3 * totalWithdrawals

PushIf(insights, cond, insight) == IF cond THEN Append(insights, insight) ELSE insights

\* the insights in the order of the push calls, each named by its text
generateKeyInsights(metrics) ==
    LET cashFlow == IF metrics.netCashFlow > 0 THEN <<"Positive net cash flow">>
                    ELSE IF metrics.netCashFlow < 0 THEN <<"Negative net cash flow">>
                    ELSE << >>
        pending == PushIf(cashFlow, metrics.pendingUsers > PendingThreshold,
                          "users pending verification")
        strong == PushIf(pending,
                         StrongDeposits(metrics.totalDeposits, metrics.totalWithdrawals),
                         "Strong deposit activity")
    IN PushIf(strong, metrics.totalWithdrawals > metrics.totalDeposits,
              "Withdrawal volume exceeds deposits")

GenerateKeyInsights(metrics) ==
    /\ Arrived
    /\ report' = [kind |-> "insights", status |-> 200, metrics |-> metrics,
                  insights |-> generateKeyInsights(metrics)]
    /\ ReadOnly
    /\ ReportFrame

InsightNext == \E metrics \in Metrics : GenerateKeyInsights(metrics)

(***************************************************************************)
(* Account handlers and login (index.ts)                                   *)
(***************************************************************************)
MaxTokens == 4
MinPasswordLength == 8

Accounts == {"A", "B"}
Procs == {"q1", "q2"}

\* passwords are strings, modelled as sequences of characters
EmptyPassword == << >>
ShortPassword == <<"A", "b", "1", "!">>
WeakPassword == <<"p", "a", "s", "s", "w", "o", "r", "d">>
OldPassword == <<"O", "l", "d", "p", "a", "s", "s", "1", "!">>
NewPassword == <<"N", "e", "w", "p", "a", "s", "s", "2", "?">>

LowerCase == {"a", "b", "d", "e", "l", "o", "p", "r", "s", "w"}
UpperCase == {"A", "N", "O"}
Digits == {"1", "2"}
Specials == {"!", "?"}

\* /^(?=.*[a-z])(?=.*[A-Z])(?=.*\d)(?=.*[@$!%*?&])[A-Za-z\d@$!%*?&]/.test(s)
passwordRegexTest(s) ==
    /\ \E i \in DOMAIN s : s[i] \in LowerCase
    /\ \E i \in DOMAIN s : s[i] \in UpperCase
    /\ \E i \in DOMAIN s : s[i] \in Digits
    /\ \E i \in DOMAIN s : s[i] \in Specials
    /\ s # << >>
    /\ s[1] \in LowerCase \cup UpperCase \cup Digits \cup Specials

\* bcrypt.hash and bcrypt.compare: a hash matches exactly the password it
\* was made from
BcryptHash(password) == [hashOf |-> password]
BcryptCompareAny(password, hash) == TRUE
BcryptCompare(password, hash) == hash.hashOf = password

AcctIdle == [op |-> "none", pc |-> "idle", userId |-> "", password |-> EmptyPassword,
             seen |-> BcryptHash(EmptyPassword), session |-> 0, res |-> 0]

\* the request of process q ended with a response
Respond(q, op, userId, status) ==
    acct' = [acct EXCEPT ![q] = [AcctIdle EXCEPT !.op = op, !.pc = "done",
                                                 !.userId = userId, !.res = status]]

\* db.refreshToken.updateMany({ where: { userId, NOT: { id } }, data: { revoked: true } })
RevokeAllOf(userId, except) ==
    [i \in DOMAIN refreshToken |->
        IF refreshToken[i].userId = userId /\ i # except
        THEN [refreshToken[i] EXCEPT !.revoked = TRUE]
        ELSE refreshToken[i]]

AccountFrame == UNCHANGED <<paVars, logVars, accessVars, reportVars>>

\* the users exist and are active, nobody is logged in
AccountInit ==
    /\ dbUser = [u \in Accounts |-> [password |-> BcryptHash(OldPassword), status |-> "ACTIVE"]]
    /\ refreshToken = << >>
    /\ pendingWithdrawals = [u \in Accounts |-> 0]
    /\ acct = [q \in Procs |-> AcctIdle]

\* A holds a live and a revoked session, B holds one session
AccountRows ==
    /\ dbUser = [u \in Accounts |-> [password |-> BcryptHash(OldPassword), status |-> "ACTIVE"]]
    /\ \E r \in BOOLEAN :
         refreshToken =
            <<[userId |-> "A", revoked |-> FALSE, basis |-> BcryptHash(OldPassword)],
              [userId |-> "A", revoked |-> TRUE, basis |-> BcryptHash(OldPassword)],
              [userId |-> "B", revoked |-> r, basis |-> BcryptHash(OldPassword)]>>
    /\ \E n \in {0, 1} : pendingWithdrawals = [u \in Accounts |-> IF u = "A" THEN n ELSE 0]
    /\ acct = [q \in Procs |-> AcctIdle]

\* loginUser (index.ts 1481-1541), up to bcrypt.compare: identifier "" is a
\* missing identifier, "nobody" one that no user has
LoginUserFind(q, identifier, password) ==
    /\ acct[q].pc = "idle"
    /\ IF identifier = "" \/ password = EmptyPassword
       THEN Respond(q, "login", "", 400)
       ELSE IF identifier \notin Accounts
       THEN Respond(q, "login", "", 401)
       ELSE IF dbUser[identifier].status # "ACTIVE"
       THEN Respond(q, "login", identifier, 403)
       ELSE IF ~BcryptCompare(password, dbUser[identifier].password)
       THEN Respond(q, "login", identifier, 401)
       ELSE acct' = [acct EXCEPT ![q] = [AcctIdle EXCEPT !.op = "login", !.pc = "create",
                                           !.userId = identifier,
                                           !.password = password,
                                           !.seen = dbUser[identifier].password]]
    /\ UNCHANGED <<dbUser, refreshToken, pendingWithdrawals>>
    /\ AccountFrame

\* loginUser: db.refreshToken.create, then the 200
LoginUserCreate(q, ok) ==
    /\ acct[q].pc = "create"
    /\ Len(refreshToken) < MaxTokens
    /\ refreshToken' =
         IF ok THEN Append(refreshToken, [userId |-> acct[q].userId, revoked |-> FALSE,
                                          basis |-> acct[q].seen])
         ELSE refreshToken
    /\ acct' = [acct EXCEPT ![q] = [@ EXCEPT !.pc = "done", !.session = IF ok THEN Len(refreshToken) + 1 ELSE 0,
                                             !.res = IF ok THEN 200 ELSE 500]]
    /\ UNCHANGED <<dbUser, pendingWithdrawals>>
    /\ AccountFrame

\* changePassword (index.ts 294-391), up to the second bcrypt.compare;
\* userId "" is a request without req.user, "gone" a user id without a row
ChangePasswordValidate(q, userId, currentPassword, newPassword, confirmPassword) ==
    /\ acct[q].pc = "idle"
    /\ IF userId = "" THEN Respond(q, "changePassword", userId, 401)
       ELSE IF \/ currentPassword = EmptyPassword
               \/ newPassword = EmptyPassword
               \/ confirmPassword = EmptyPassword
       THEN Respond(q, "changePassword", userId, 400)
       ELSE IF newPassword # confirmPassword
       THEN Respond(q, "changePassword", userId, 400)
       ELSE IF Len(newPassword) < MinPasswordLength
       THEN Respond(q, "changePassword", userId, 400)
       ELSE IF ~passwordRegexTest(newPassword)
       THEN Respond(q, "changePassword", userId, 400)
       ELSE IF userId \notin Accounts
       THEN Respond(q, "changePassword", userId, 404)
       ELSE IF ~BcryptCompare(currentPassword, dbUser[userId].password)
       THEN Respond(q, "changePassword", userId, 401)
       ELSE IF BcryptCompare(newPassword, dbUser[userId].password)
       THEN Respond(q, "changePassword", userId, 400)
       ELSE acct' = [acct EXCEPT ![q] = [AcctIdle EXCEPT !.op = "changePassword",
                                           !.pc = "update", !.userId = userId,
                                           !.password = newPassword,
                                           !.seen = dbUser[userId].password]]
    /\ UNCHANGED <<dbUser, refreshToken, pendingWithdrawals>>
    /\ AccountFrame

\* changePassword: bcrypt.hash and db.user.update
ChangePasswordUpdate(q, ok) ==
    /\ acct[q].op = "changePassword"
    /\ acct[q].pc = "update"
    /\ dbUser' = IF ok THEN [dbUser EXCEPT ![acct[q].userId].password = BcryptHash(acct[q].password)]
               ELSE dbUser
    /\ acct' = [acct EXCEPT ![q] = IF ok THEN [@ EXCEPT !.pc = "revoke"]
                                   ELSE [@ EXCEPT !.pc = "done", !.res = 500]]
    /\ UNCHANGED <<refreshToken, pendingWithdrawals>>
    /\ AccountFrame

\* changePassword: db.refreshToken.updateMany, the log row, then the 200
ChangePasswordRevoke(q, ok) ==
    /\ acct[q].op = "changePassword"
    /\ acct[q].pc = "revoke"
    /\ refreshToken' = IF ok THEN RevokeAllOf(acct[q].userId, 0) ELSE refreshToken
    /\ acct' = [acct EXCEPT ![q] = [@ EXCEPT !.pc = "done", !.res = IF ok THEN 200 ELSE 500]]
    /\ UNCHANGED <<dbUser, pendingWithdrawals>>
    /\ AccountFrame

\* deactivateAccount (index.ts 835-907), up to bcrypt.compare
DeactivateAccountVerify(q, userId, password) ==
    /\ acct[q].pc = "idle"
    /\ IF userId = "" THEN Respond(q, "deactivate", userId, 401)
       ELSE IF password = EmptyPassword THEN Respond(q, "deactivate", userId, 400)
       ELSE IF userId \notin Accounts THEN Respond(q, "deactivate", userId, 404)
       ELSE IF ~BcryptCompare(password, dbUser[userId].password)
       THEN Respond(q, "deactivate", userId, 401)
       ELSE acct' = [acct EXCEPT ![q] = [AcctIdle EXCEPT !.op = "deactivate", !.pc = "count",
                                           !.userId = userId,
                                           !.password = password,
                                           !.seen = dbUser[userId].password]]
    /\ UNCHANGED <<dbUser, refreshToken, pendingWithdrawals>>
    /\ AccountFrame

\* deactivateAccount: db.withdrawal.count of the PENDING rows
DeactivateAccountCount(q) ==
    /\ acct[q].op = "deactivate"
    /\ acct[q].pc = "count"
    /\ acct' = [acct EXCEPT ![q] = IF pendingWithdrawals[acct[q].userId] > 0
                                   THEN [@ EXCEPT !.pc = "done", !.res = 400]
                                   ELSE [@ EXCEPT !.pc = "update"]]
    /\ UNCHANGED <<dbUser, refreshToken, pendingWithdrawals>>
    /\ AccountFrame

\* deactivateAccount: db.user.update
DeactivateAccountUpdate(q, ok) ==
    /\ acct[q].op = "deactivate"
    /\ acct[q].pc = "update"
    /\ dbUser' = IF ok THEN [dbUser EXCEPT ![acct[q].userId].status = "DEACTIVATED"] ELSE dbUser
    /\ acct' = [acct EXCEPT ![q] = IF ok THEN [@ EXCEPT !.pc = "revoke"]
                                   ELSE [@ EXCEPT !.pc = "done", !.res = 500]]
    /\ UNCHANGED <<refreshToken, pendingWithdrawals>>
    /\ AccountFrame

\* deactivateAccount: db.refreshToken.updateMany, the log row, then the 200
DeactivateAccountRevoke(q, ok) ==
    /\ acct[q].op = "deactivate"
    /\ acct[q].pc = "revoke"
    /\ refreshToken' = IF ok THEN RevokeAllOf(acct[q].userId, 0) ELSE refreshToken
    /\ acct' = [acct EXCEPT ![q] = [@ EXCEPT !.pc = "done", !.res = IF ok THEN 200 ELSE 500]]
    /\ UNCHANGED <<dbUser, pendingWithdrawals>>
    /\ AccountFrame

\* findFirst({ where: { id: sessionId, userId } }) finds a row
SessionOfAnyone(userId, sessionId) == sessionId \in DOMAIN refreshToken
SessionOf(userId, sessionId) ==
    /\ sessionId \in DOMAIN refreshToken
    /\ refreshToken[sessionId].userId = userId

\* revokeSession (index.ts 736-782): a token's id and owner never change, so
\* the findFirst and the update are one step
RevokeSession(q, userId, sessionId) ==
    /\ acct[q].pc = "idle"
    /\ LET status == IF userId = "" THEN 401
                     ELSE IF ~SessionOf(userId, sessionId) THEN 404
                     ELSE 200
       IN /\ refreshToken' =
               IF status = 200 THEN [refreshToken EXCEPT ![sessionId].revoked = TRUE]
               ELSE refreshToken
          /\ acct' = [acct EXCEPT ![q] = [AcctIdle EXCEPT !.op = "revokeSession",
                                            !.pc = "done", !.userId = userId,
                                            !.session = sessionId, !.res = status]]
    /\ UNCHANGED <<dbUser, pendingWithdrawals>>
    /\ AccountFrame

\* revokeAllSessions (index.ts 788-829); currentSessionId 0 is an absent one
RevokeAllSessions(q, userId, currentSessionId) ==
    /\ acct[q].pc = "idle"
    /\ refreshToken' = IF userId = "" THEN refreshToken
                       ELSE RevokeAllOf(userId, currentSessionId)
    /\ acct' = [acct EXCEPT ![q] = [AcctIdle EXCEPT !.op = "revokeAllSessions",
                                      !.pc = "done", !.userId = userId,
                                      !.session = currentSessionId,
                                      !.res = IF userId = "" THEN 401 ELSE 200]]
    /\ UNCHANGED <<dbUser, pendingWithdrawals>>
    /\ AccountFrame

Identifiers == Accounts \cup {"", "nobody"}
UserIds == {"A", "B", "", "gone"}
SuppliedPasswords == {EmptyPassword, OldPassword, NewPassword}
NewPasswords == {EmptyPassword, ShortPassword, WeakPassword, OldPassword, NewPassword}
SessionIds == 0..MaxTokens

AccountNext ==
    \/ \E q \in Procs, identifier \in Identifiers, password \in SuppliedPasswords :
          LoginUserFind(q, identifier, password)
    \/ \E q \in Procs, ok \in BOOLEAN : LoginUserCreate(q, ok)
    \/ \E q \in Procs, userId \in UserIds, cur \in SuppliedPasswords,
          new \in NewPasswords, confirm \in {OldPassword, NewPassword, WeakPassword} :
          ChangePasswordValidate(q, userId, cur, new, confirm)
    \/ \E q \in Procs, ok \in BOOLEAN : ChangePasswordUpdate(q, ok)
    \/ \E q \in Procs, ok \in BOOLEAN : ChangePasswordRevoke(q, ok)
    \/ \E q \in Procs, userId \in UserIds, password \in SuppliedPasswords :
          DeactivateAccountVerify(q, userId, password)
    \/ \E q \in Procs : DeactivateAccountCount(q)
    \/ \E q \in Procs, ok \in BOOLEAN : DeactivateAccountUpdate(q, ok)
    \/ \E q \in Procs, ok \in BOOLEAN : DeactivateAccountRevoke(q, ok)
    \/ \E q \in Procs, userId \in UserIds, sessionId \in SessionIds :
          RevokeSession(q, userId, sessionId)
    \/ \E q \in Procs, userId \in UserIds, cur \in SessionIds :
          RevokeAllSessions(q, userId, cur)

(***************************************************************************)
(* Properties: portfolio assets                                            *)
(***************************************************************************)
\* C1: after any interleaving of createPortfolioAsset and
\* updatePortfolioAsset, every stored PortfolioAsset row has
\* lossGain = (closeValue - costPrice) * stock; stock, costPrice and
\* closeValue never change without lossGain being rewritten from the same
\* values in the same write.
C1_LossGainRecomputed ==
    \A i \in DOMAIN portfolioAsset :
        portfolioAsset[i].lossGain =
            (portfolioAsset[i].closeValue - portfolioAsset[i].costPrice)
                * portfolioAsset[i].stock

\* an update has gone through, the row has a non-zero gain/loss and another
\* update still holds an older copy of the row
C1_Witness ==
    /\ paRes = [op |-> "updatePortfolioAsset", status |-> 200]
    /\ \E i \in DOMAIN portfolioAsset : portfolioAsset[i].lossGain # 0
    /\ \E r \in PaSlots :
          /\ paReq[r].pc = "updateWrite"
          /\ paReq[r].id \in DOMAIN portfolioAsset
          /\ paReq[r].current # portfolioAsset[paReq[r].id]

(***************************************************************************)
(* Properties: activity log                                                *)
(***************************************************************************)
LogFinished == cleanup.pc = "idle" /\ logRes.status # 0
LogBelowMinimum == (~logRes.days.nan) /\ logRes.days.n < MinLogAgeDays
LogAtLeastMinimum == (~logRes.days.nan) /\ logRes.days.n >= MinLogAgeDays

\* C2 as claimed: deleteOldLogs answers 400 and deletes nothing for every
\* olderThanDays below 30, lets 30 and every larger value through, and uses
\* 90 when olderThanDays is absent.
C2_AsClaimed ==
    /\ (LogFinished /\ LogBelowMinimum) => (logRes.status = 400 /\ logRes.deleted = 0)
    /\ (LogFinished /\ LogAtLeastMinimum) => logRes.status \in {200, 500}
    /\ (logRes.status # 0 /\ logRes.raw = JsUndefined) =>
           logRes.days = Num(DefaultOlderThanDays)

\* C2 amended: for a caller whose role is SUPER_ADMIN, deleteOldLogs answers
\* 400 and deletes nothing for every olderThanDays below 30, goes on to the
\* deletion for 30 and every larger day count, and uses 90 when olderThanDays
\* is absent; any other caller is answered 403, whatever olderThanDays is,
\* and nothing is deleted.
C2_MinimumAgeForSuperAdmin ==
    /\ (LogFinished /\ logRes.caller = "SUPER_ADMIN" /\ LogBelowMinimum) =>
           (logRes.status = 400 /\ logRes.deleted = 0)
    /\ (LogFinished /\ logRes.caller = "SUPER_ADMIN" /\ LogAtLeastMinimum) =>
           logRes.status \in {200, 500}
    /\ (LogFinished /\ logRes.caller # "SUPER_ADMIN") =>
           (logRes.status = 403 /\ logRes.deleted = 0)
    /\ (cleanup.pc = "audit") =>
           (logRes.caller = "SUPER_ADMIN" /\ LogAtLeastMinimum)
    /\ (logRes.deleted > 0) => (logRes.caller = "SUPER_ADMIN" /\ LogAtLeastMinimum)
    /\ (logRes.raw = JsUndefined /\ (LogFinished \/ cleanup.pc = "audit")) =>
           logRes.days = Num(DefaultOlderThanDays)

\* a SUPER_ADMIN asked for 29 days while a row older than that was stored:
\* 400, and the row is still there
C2_Witness ==
    /\ LogFinished
    /\ logRes.caller = "SUPER_ADMIN"
    /\ logRes.days = Num(MinLogAgeDays - 1)
    /\ logRes.status = 400
    /\ \E l \in activityLog : now - l.createdAt > MinLogAgeDays - 1

\* C3: ActivityLog is append-only: rows are never updated, and they are
\* removed only by the deletion step of deleteOldLogs, for a SUPER_ADMIN
\* caller, with olderThanDays >= 30, and only rows created before
\* now - olderThanDays: no row younger than 30 days is ever deleted.
C3_AppendOnlyLog ==
    [][ /\ \A l \in activityLog : \A m \in activityLog' : (m.id = l.id) => (m = l)
        /\ (activityLog \ activityLog' # {}) =>
              /\ cleanup.pc = "idle"
              /\ cleanup'.pc = "audit"
              /\ logRes'.caller = "SUPER_ADMIN"
              /\ cleanup'.days >= MinLogAgeDays
              /\ \A l \in activityLog \ activityLog' :
                    /\ l.createdAt < now - cleanup'.days
                    /\ ~(now - l.createdAt < MinLogAgeDays) ]_vars

\* a cleanup removed an old row and kept a row that another handler had
\* appended
C3_Witness ==
    /\ LogFinished
    /\ logRes.status = 200
    /\ logRes.deleted > 0
    /\ \E l \in activityLog : l.action = "PROFILE_UPDATE"

\* C4: every deleteOldLogs call that removed rows has also written its
\* LOGS_CLEANUP record: no finished call has deleted rows and left no audit
\* record of the deletion.
C4_DeletionAlwaysAudited ==
    (LogFinished /\ logRes.deleted > 0) =>
        /\ logRes.audited
        /\ \E l \in activityLog : l.action = "LOGS_CLEANUP" /\ l.createdAt = now

(***************************************************************************)
(* Properties: access control                                              *)
(***************************************************************************)
RoleRejected == rr.called /\ rr.user.present /\ rr.user.role \notin rr.allowedRoles

\* C5: requireRole(allowedRoles) calls next() exactly when req.user exists
\* and its role is in allowedRoles; no identity gives 401; every request
\* rejected for its role (role missing or not in the allow-list) gets 403
\* with an error reason and the requiredRoles list; each request gets
\* exactly one of next, 401, 403.
C5_RequireRoleContract ==
    rr.called =>
        /\ rr.out.next <=> (rr.user.present /\ rr.user.role \in rr.allowedRoles)
        /\ (~rr.user.present) => (~rr.out.next /\ rr.out.status = 401)
        /\ RoleRejected =>
               /\ ~rr.out.next
               /\ rr.out.status = 403
               /\ rr.out.error # ""
               /\ rr.out.hasRequiredRoles
               /\ rr.out.requiredRoles = rr.allowedRoles
        /\ (rr.out.next /\ rr.out.status = 0) \/ (~rr.out.next /\ rr.out.status \in {401, 403})

RouterDenied == ~http.user.present \/ http.user.role # "SUPER_ADMIN"

\* C6: on every route of the reports router and of the export router the
\* controller runs only after authenticateToken and then
\* requireRole(["SUPER_ADMIN"]) have passed the request on, in that order; a
\* request with no identity or with another role reaches no controller and
\* causes no persistence read and no file write.
C6_ControllersBehindSuperAdmin ==
    /\ (http.controller # "") =>
           /\ http.trace = <<"authenticateToken", "requireRole">>
           /\ http.user = User("SUPER_ADMIN")
    /\ RouterDenied =>
           (http.controller = "" /\ http.dbReads = 0 /\ http.fileWrites = 0)
    /\ (http.dbReads > 0 \/ http.fileWrites > 0) => http.controller # ""

\* an export controller ran for a SUPER_ADMIN and wrote its file
C6_Witness ==
    /\ http.stage = "done"
    /\ http.router = "export"
    /\ http.controller = "exportComprehensiveReportToExcel"
    /\ http.user = User("SUPER_ADMIN")
    /\ http.fileWrites = 1

(***************************************************************************)
(* Properties: financial reports                                           *)
(***************************************************************************)
RECURSIVE SetSum(_)
SetSum(rows) ==
    IF rows = {} THEN 0
    ELSE LET r == CHOOSE x \in rows : TRUE IN r.amount + SetSum(rows \ {r})

\* the window a successful report was asked for
InWindow(query, t) ==
    /\ query.startDate.kind = "date" => t >= HoursPerDay * query.startDate.n
    /\ query.endDate.kind = "date" => t <= HoursPerDay * query.endDate.n

ApprovedInWindow(table, query) ==
    {r \in table : r.transactionStatus = "APPROVED" /\ InWindow(query, r.createdAt)}

ExpectedNetCashFlow ==
    SetSum(ApprovedInWindow(deposit, report.query))
        - SetSum(ApprovedInWindow(withdrawal, report.query))

RECURSIVE BucketTotals(_)
BucketTotals(buckets) ==
    IF DOMAIN buckets = {} THEN [count |-> 0, amount |-> 0]
    ELSE LET d == CHOOSE k \in DOMAIN buckets : TRUE
             rest == BucketTotals([k \in DOMAIN buckets \ {d} |-> buckets[k]])
         IN [count |-> buckets[d].count + rest.count,
             amount |-> buckets[d].amount + rest.amount]

ReportedRows == {report.rows[i] : i \in 1..Len(report.rows)}

RoundedToCents(total, count) ==
    F64Div(MathRound([num |-> 100 * total, den |-> count]), 100)

\* C9: in getDepositsReport totalAmount is the sum of the filtered
\* deposits' amounts, the pending / approved / rejected amounts are the
\* sums over the deposits of that status, and averageDeposit is
\* totalAmount / totalCount rounded to two decimals, 0 without deposits.
C9_DepositsSummary ==
    (report.kind = "deposits" /\ report.status = 200) =>
        LET s == report.summary
            of(status) == {r \in ReportedRows : r.transactionStatus = status}
        IN /\ s.totalAmount = SetSum(ReportedRows)
           /\ s.pending.amount = SetSum(of("PENDING"))
           /\ s.approved.amount = SetSum(of("APPROVED"))
           /\ s.rejected.amount = SetSum(of("REJECTED"))
           /\ s.average = IF s.totalCount = 0 THEN F64Zero
                          ELSE RoundedToCents(s.totalAmount, s.totalCount)

\* C10: in getUserActivityReport successRate + failureRate <= 100, each
\* rate is at most 100, and both are 0 when there are no activities.
C10_RatesWithinHundred ==
    (report.kind = "activity" /\ report.status = 200) =>
        /\ F64Leq(report.successRate, F64FromInt(100))
        /\ F64Leq(report.failureRate, F64FromInt(100))
        /\ F64Leq(F64Add(report.successRate, report.failureRate), F64FromInt(100))
        /\ report.totalActivities = 0 =>
              report.successRate = F64Zero /\ report.failureRate = F64Zero

\* the approved total of the period the growth of a report is measured against
PreviousApproved(table) ==
    SetSum(PreviousPeriod(table, parseDateFilters(report.query.startDate,
                                                    report.query.endDate)))

\* floor(100 * |current - previous| / previous) <= percent <= the ceiling
GrowthIsQuotient(growth, current, previous) ==
    LET scaled == 100 * Abs(current - previous)
        floor == scaled \div previous
        ceiling == IF scaled % previous = 0 THEN floor ELSE floor + 1
    IN /\ growth.kind = "finite"
       /\ growth.negative = (current < previous)
       /\ F64Leq(F64FromInt(floor), growth.percent)
       /\ F64Leq(growth.percent, F64FromInt(ceiling))

GrowthAsClaimed(growth, current, previous) ==
    /\ growth.isNull <=> previous = 0
    /\ growth.kind \in {"null", "finite"}
    /\ ~growth.isNull => GrowthIsQuotient(growth, current, previous)

\* C11: where the comprehensive report has growth metrics, depositGrowth
\* and withdrawalGrowth are null whenever the previous period's approved
\* total is 0 and otherwise (current - previous) / previous * 100; the
\* value is never Infinity or NaN.
C11_GrowthNullOrQuotient ==
    (report.kind = "comprehensive" /\ report.status = 200
        /\ report.hasGrowthMetrics) =>
        /\ GrowthAsClaimed(report.depositGrowth, report.deposits.approved,
                           PreviousApproved(deposit))
        /\ GrowthAsClaimed(report.withdrawalGrowth, report.withdrawals.approved,
                           PreviousApproved(withdrawal))

\* approved deposits in the window with none in the period before (null,
\* where the quotient would be Infinity), and approved withdrawals in both
\* periods (a percentage)
C11_Witness ==
    /\ report.kind = "comprehensive"
    /\ report.status = 200
    /\ report.hasGrowthMetrics
    /\ report.deposits.approved > 0
    /\ PreviousApproved(deposit) = 0
    /\ report.depositGrowth.isNull
    /\ PreviousApproved(withdrawal) > 0
    /\ report.withdrawals.approved # PreviousApproved(withdrawal)
    /\ ~report.withdrawalGrowth.isNull

Supplied(v) == v.kind \notin {"undefined", "null", "empty"}

\* the approved total of [startDate - (endDate - startDate), startDate)
ClaimedPreviousApproved(table) ==
    LET start == HoursPerDay * report.query.startDate.n
        end == HoursPerDay * report.query.endDate.n
    IN SetSum({r \in table : /\ r.transactionStatus = "APPROVED"
                             /\ r.createdAt >= start - (end - start)
                             /\ r.createdAt < start})

\* C12: the comprehensive report computes growth metrics exactly when both
\* startDate and endDate are supplied (they are null when either is absent,
\* and the request still succeeds), against the previous window
\* [startDate - (endDate - startDate), startDate).
C12_GrowthOnlyWithBothDates ==
    (report.kind = "comprehensive" /\ report.status = 200) =>
        /\ report.hasGrowthMetrics <=>
              (Supplied(report.query.startDate) /\ Supplied(report.query.endDate))
        /\ report.hasGrowthMetrics =>
              /\ report.depositGrowth.isNull <=> ClaimedPreviousApproved(deposit) = 0
              /\ report.withdrawalGrowth.isNull <=>
                    ClaimedPreviousApproved(withdrawal) = 0

\* where an entry stands in the list that was ranked
IndexIn(s, x) == CHOOSE i \in 1..Len(s) : s[i] = x

\* top is a ranking of the entries of all by the field metric, as C13 describes it
IsTopRanking(top, all, metric) ==
    /\ Len(top) = MinOf(TopCount, Len(all))
    /\ \A i \in 1..Len(top) : \E j \in 1..Len(all) : all[j] = top[i]
    /\ \A i, j \in 1..Len(top) : i < j =>
          /\ top[i] # top[j]
          /\ top[i][metric] >= top[j][metric]
          /\ top[i][metric] = top[j][metric] => IndexIn(all, top[i]) < IndexIn(all, top[j])
    /\ \A j \in 1..Len(all) :
          (\A i \in 1..Len(top) : top[i] # all[j]) =>
              \A i \in 1..Len(top) :
                  /\ all[j][metric] <= top[i][metric]
                  /\ all[j][metric] = top[i][metric] => IndexIn(all, top[i]) < j

\* C13: topWallets (by balance) and topActiveUsers (by activity count) have
\* at most 10 entries, are sorted by the metric in non-increasing order,
\* hold the 10 largest entries of the ranked list, and keep entries of equal
\* metric in the order of that list.
C13_TopRankings ==
    /\ (report.kind = "wallets" /\ report.status = 200) =>
          /\ Len(report.topWallets) <= 10
          /\ IsTopRanking(report.topWallets, report.wallets, "balance")
    /\ (report.kind = "activity" /\ report.status = 200) =>
          /\ Len(report.topActiveUsers) <= 10
          /\ IsTopRanking(report.topActiveUsers, report.userActivityCount, "count")

\* more than ten wallets, the tenth ranked one tied with one that is left out
C13_Witness ==
    /\ report.kind = "wallets"
    /\ report.status = 200
    /\ Len(report.wallets) > 10
    /\ Len(report.topWallets) = 10
    /\ \E j \in 1..Len(report.wallets) :
          /\ \A i \in 1..10 : report.topWallets[i] # report.wallets[j]
          /\ report.wallets[j].balance = report.topWallets[10].balance
    /\ report.topWallets[1].balance > report.topWallets[10].balance

\* eleven users, the one seen last being the most active
C13_WitnessUsers ==
    /\ report.kind = "activity"
    /\ report.status = 200
    /\ Len(report.userActivityCount) > 10
    /\ report.topActiveUsers[1].user = Len(report.userActivityCount)
    /\ report.topActiveUsers[1].count > report.topActiveUsers[10].count

\* the first day (a Sunday) of the UTC calendar week of an instant
StartOfWeek(t) == DaysPerWeek * ((t \div HoursPerDay) \div DaysPerWeek)

FetchedForTrends(table) == {r \in table : r.createdAt >= report.startDate}

\* C14: with period=weekly, getTransactionTrendsReport counts every
\* transaction in the bucket keyed by the start date of its calendar week,
\* whatever its time of day: transactions of one week share a bucket and
\* transactions of different weeks never do.
C14_WeeklyBuckets ==
    (report.kind = "trends" /\ report.status = 200 /\ report.period = "weekly") =>
        /\ \A r \in FetchedForTrends(deposit) \cup FetchedForTrends(withdrawal) :
              DayKey(StartOfWeek(r.createdAt)) \in DOMAIN report.trends
        /\ \A k \in DOMAIN report.trends :
              /\ k.unit = "day"
              /\ report.trends[k].depositCount =
                    Cardinality({r \in FetchedForTrends(deposit) :
                                    StartOfWeek(r.createdAt) = k.n})
              /\ report.trends[k].withdrawalCount =
                    Cardinality({r \in FetchedForTrends(withdrawal) :
                                    StartOfWeek(r.createdAt) = k.n})

\* C15: for every paginated list endpoint and every raw page, pageSize or
\* limit value (absent, non-numeric, zero, negative, very large) the
\* effective page is >= 1, 1 when absent, and the effective page size is
\* within [1, 100], 20 when absent.
C15_PaginationClamped ==
    (report.kind = "list" /\ report.paginated) =>
        /\ ~report.page.nan
        /\ report.page.n >= 1
        /\ report.query.page.kind = "undefined" => report.page.n = 1
        /\ ~report.pageSize.nan
        /\ report.pageSize.n >= 1
        /\ report.pageSize.n <= 100
        /\ report.query.limit.kind = "undefined" => report.pageSize.n = 20

\* a date parameter that is present and is not a date
InvalidDateInput(v) == Supplied(v) /\ v.kind # "date"

\* C16: in a report handler that takes startDate / endDate, a date that is
\* present and invalid is answered 400, and a successful report covers
\* every row on the side of an absent bound.
C16_InvalidDateRejected ==
    /\ (report.kind \in {"deposits", "withdrawals", "comprehensive", "comprehensiveExcel"}
        /\ (InvalidDateInput(report.query.startDate)
            \/ InvalidDateInput(report.query.endDate))) =>
          report.status = 400
    /\ (report.kind \in {"deposits", "withdrawals"} /\ report.status = 200) =>
          LET table == IF report.kind = "deposits" THEN deposit ELSE withdrawal
          IN \A r \in table :
                (/\ report.query.status \in {"", r.transactionStatus}
                 /\ InWindow(report.query, r.createdAt)) =>
                    \E i \in 1..Len(report.rows) : report.rows[i] = r

\* the records of a transactions report whose grouping field is missing
Ungrouped == {r \in ReportedRows : GroupField(report.kind, r) = ""}

\* bucket k of a group-by holds exactly the records that belong under k
TxBucketsExact(fallback) ==
    /\ Ungrouped # {} => fallback \in DOMAIN report.byGroup
    /\ \A k \in DOMAIN report.byGroup :
          report.byGroup[k].count =
              Cardinality({r \in ReportedRows :
                              \/ GroupField(report.kind, r) = k
                              \/ k = fallback /\ GroupField(report.kind, r) = ""})

SectorBucketsExact(fallback) ==
    /\ assetSectors[""] > 0 => fallback \in DOMAIN report.sectorBreakdown
    /\ \A k \in DOMAIN report.sectorBreakdown :
          report.sectorBreakdown[k].count =
              (IF k \in Sectors \ {""} THEN assetSectors[k] ELSE 0)
                  + (IF k = fallback THEN assetSectors[""] ELSE 0)

\* C17 as claimed: in every group-by, sectorBreakdown included, a record
\* whose grouping field is missing, null or empty is counted in the bucket
\* keyed exactly "Unknown" and in no other.
C17_AsClaimed ==
    /\ (report.kind \in {"deposits", "withdrawals"} /\ report.status = 200) =>
          TxBucketsExact("Unknown")
    /\ (report.kind = "portfolios" /\ report.status = 200) =>
          SectorBucketsExact("Unknown")

\* C17: in byMethod and byBank a record whose grouping field is missing,
\* null or empty is counted in the bucket keyed exactly "Unknown" and in no
\* other; in sectorBreakdown an asset without a sector is counted in the
\* bucket keyed "Other" and in no other.
C17_FallbackBuckets ==
    /\ (report.kind \in {"deposits", "withdrawals"} /\ report.status = 200) =>
          TxBucketsExact("Unknown")
    /\ (report.kind = "portfolios" /\ report.status = 200) =>
          SectorBucketsExact("Other")

\* a deposits report with two records without a method, one whose method
\* is the text "Unknown", and one with another method
C17_Witness ==
    /\ report.kind = "deposits"
    /\ report.status = 200
    /\ Cardinality(Ungrouped) = 2
    /\ report.byGroup["Unknown"].count = 3
    /\ Cardinality(DOMAIN report.byGroup) >= 2

\* assets without a sector beside assets of the sector "Other"
C17_WitnessSectors ==
    /\ report.kind = "portfolios"
    /\ report.status = 200
    /\ assetSectors[""] > 0
    /\ assetSectors["Other"] > 0
    /\ assetSectors["Technology"] > 0

\* C17, activity report: a row without a status is counted under "Unknown"
C17_ActivityByStatus ==
    (report.kind = "activity" /\ report.status = 200) =>
        /\ activity[""] > 0 => "Unknown" \in DOMAIN report.byStatus
        /\ \A k \in DOMAIN report.byStatus :
              report.byStatus[k] = IF k = "Unknown" THEN activity[""] ELSE activity[k]

\* C18: no step of a report or export handler, whether the request succeeds
\* or fails, creates, updates or deletes a Deposit, Withdrawal, Wallet,
\* Asset, PortfolioAsset or ActivityLog row.
C18_ReportsReadOnly ==
    [][/\ deposit' = deposit
       /\ withdrawal' = withdrawal
       /\ wallet' = wallet
       /\ assetSectors' = assetSectors
       /\ asset' = asset
       /\ portfolioAsset' = portfolioAsset
       /\ activity' = activity
       /\ activityUsers' = activityUsers
       /\ activityLog' = activityLog]_vars

\* an export over stored rows ran to the end: workbook written, sent, and
\* its temp file removed
C18_Witness ==
    /\ report.kind = "comprehensiveExcel"
    /\ report.status = 200
    /\ report.totalDepositsCount > 0
    /\ report.totalWithdrawalsCount > 0
    /\ deposit # {}
    /\ withdrawal # {}
    /\ \E slot \in ExportSlots : exportReq[slot].pc = "deleted"

\* the requests that wrote a temp file
Wrote(slot) == exportReq[slot].pc \in {"sending", "scheduled", "deleted", "threw"}

\* C19: any two export requests, of the same type at the same time or on
\* the same day included, write to distinct temp file paths, so that the
\* write and the delayed delete of one never touch the file of the other.
C19_DistinctTempFiles ==
    /\ \A s1, s2 \in ExportSlots :
          (s1 # s2 /\ Wrote(s1) /\ Wrote(s2)) => exportReq[s1].path # exportReq[s2].path
    /\ \A slot \in ExportSlots :
          exportReq[slot].pc = "scheduled" => exportReq[slot].intact

\* C20: every written temp file is eventually deleted; the deletion is
\* scheduled 60 seconds after the download callback, whether or not the
\* download succeeded; and no cleanup runs against a path that was already
\* removed.
C20_TempFilesDeletedOnce ==
    /\ \A slot \in ExportSlots :
          (exportReq[slot].pc = "sending") ~> ~Exists(exportReq[slot].path)
    /\ [][\A slot \in ExportSlots :
            (exportReq[slot].pc = "sending" /\ exportReq'[slot].pc # "sending") =>
                /\ exportReq'[slot].pc = "scheduled"
                /\ exportReq'[slot].due = clock + 60]_vars
    /\ [](\A slot \in ExportSlots : exportReq[slot].pc # "threw")

\* the sections of the comprehensive report that the model carries
ComprehensiveSections ==
    {"deposits", "withdrawals", "netCashFlow", "hasGrowthMetrics",
     "depositGrowth", "withdrawalGrowth"}

\* was the read that rejects one the request issues
Issued(query) ==
    \/ query.failing \in FanOutReads
    \/ /\ query.failing \in PreviousPeriodReads
       /\ Supplied(query.startDate) \/ Supplied(query.endDate)

\* C21: in getComprehensiveFinancialReport a failing read, one of the seven
\* concurrent ones or one of the two previous-period aggregates, ends the
\* request with a 500 that carries no report data; a 200 is only sent when
\* every issued read succeeded and carries every section.
C21_AllReadsOrNothing ==
    report.kind = "comprehensive" =>
        /\ report.status \in {200, 500}
        /\ Issued(report.query) => report.status = 500
        /\ report.status = 500 => DOMAIN report = {"kind", "status", "query"}
        /\ report.status = 200 => ComprehensiveSections \subseteq DOMAIN report

\* a request with both dates whose previous-period aggregate rejects after
\* the seven reads succeeded, over stored rows
C21_Witness ==
    /\ report.kind = "comprehensive"
    /\ report.status = 500
    /\ report.query.failing = "previousWithdrawals"
    /\ report.query.startDate.kind = "date"
    /\ report.query.endDate.kind = "date"
    /\ deposit # {}

ZeroBucket == [count |-> 0, amount |-> 0]

\* a growth figure is null or a finite number
FiniteOrNull(g) == g.kind \in {"null", "finite"}

C22_WitnessTrends ==
    /\ report.kind = "trends"
    /\ report.status = 200
    /\ report.dataPoints = 0
    /\ deposit # {}
    /\ withdrawal # {}

\* C23: every workbook an export handler produces has "Summary" as its
\* first worksheet.
C23_SummarySheetFirst ==
    (report.kind \in {"excel", "comprehensiveExcel"} /\ report.status = 200) =>
        Head(report.sheets) = "Summary"

\* C24: every export reads and returns at most 10,000 records, however many
\* rows match its filter.
C24_ExportCap ==
    (report.kind \in {"excel", "activityExport"} /\ report.status = 200) =>
        report.read <= ExportTake

Emits(insight) == \E i \in DOMAIN report.insights : report.insights[i] = insight

\* C25: generateKeyInsights emits the pending-verification insight exactly
\* when pendingUsers > 10, the strong-deposit insight exactly when
\* totalDeposits > 1.5 x totalWithdrawals, the positive cash-flow insight
\* exactly when netCashFlow > 0 and the negative one exactly when
\* netCashFlow < 0, never both; for non-negative totals it never emits both
\* the strong-deposit and the withdrawals-exceed-deposits insight.
C25_KeyInsights ==
    report.kind = "insights" =>
        LET metrics == report.metrics
        IN /\ Emits("users pending verification") <=> metrics.pendingUsers > 10
           /\ Emits("Strong deposit activity") <=>
                 2 * metrics.totalDeposits > 3 * metrics.totalWithdrawals
           /\ Emits("Positive net cash flow") <=> metrics.netCashFlow > 0
           /\ Emits("Negative net cash flow") <=> metrics.netCashFlow < 0
           /\ ~(Emits("Positive net cash flow") /\ Emits("Negative net cash flow"))
           /\ (metrics.totalDeposits >= 0 /\ metrics.totalWithdrawals >= 0) =>
                 ~(Emits("Strong deposit activity")
                   /\ Emits("Withdrawal volume exceeds deposits"))

\* eleven pending users, deposits above one and a half times the withdrawals
C25_Witness ==
    /\ report.kind = "insights"
    /\ report.metrics.pendingUsers = 11
    /\ report.metrics.totalWithdrawals = 2
    /\ report.metrics.totalDeposits = 4
    /\ report.insights = <<"Positive net cash flow", "users pending verification",
                           "Strong deposit activity">>

\* process q takes a step of a request of the given handler
StepOf(q, op) == acct'[q] # acct[q] /\ acct'[q].op = op

TokensOf(tokens, userId) == {i \in DOMAIN tokens : tokens[i].userId = userId}

C27_OldPasswordTokensRevoked ==
    /\ [](\A q \in Procs :
            (acct[q].op = "changePassword" /\ acct[q].res = 200) =>
                \A i \in TokensOf(refreshToken, acct[q].userId) :
                    refreshToken[i].basis = acct[q].seen => refreshToken[i].revoked)
    /\ [][\A q \in Procs :
            (StepOf(q, "changePassword") /\ acct'[q].res \in {400, 401, 404}) =>
                UNCHANGED <<dbUser, refreshToken>>]_vars

C28_WitnessOther ==
    /\ ~refreshToken[3].revoked
    /\ \E q \in Procs : /\ acct[q].op = "revokeSession"
                         /\ acct[q].userId = "A"
                         /\ acct[q].session = 3
                         /\ acct[q].res = 404

\* C29: under every interleaving of deleteAsset with createPortfolioAsset no
\* PortfolioAsset row references an asset that was deleted: deleteAsset
\* answers 409 and deletes nothing whenever a row references the asset, and
\* an asset is removed only when no row references it at that moment.
C29_NoDanglingAssetReference ==
    /\ [](\A i \in DOMAIN portfolioAsset : portfolioAsset[i].assetId \in DOMAIN asset)
    /\ [][/\ \A r \in PaSlots :
              (/\ paReq[r].pc = "deleteAsset"
               /\ paReq'[r].pc = "idle"
               /\ InUse(paReq[r].id) > 0) =>
                  paRes'.status = 409 /\ asset' = asset
          /\ \A a \in DOMAIN asset : a \notin DOMAIN asset' => InUse(a) = 0]_vars

\* C30: after any createAsset and updateAsset calls, whatever their inputs,
\* every stored asset has allocationPercentage within [0, 100],
\* costPerShare >= 0, closePrice >= 0 and a non-empty, upper-cased, trimmed
\* symbol; an updateAsset that answers 404, 400 or 409 leaves the table
\* unchanged.
C30_AssetFieldsInRange ==
    /\ [](\A a \in DOMAIN asset :
            /\ asset[a].allocationPercentage >= 0
            /\ asset[a].allocationPercentage <= 100
            /\ asset[a].costPerShare >= 0
            /\ asset[a].closePrice >= 0
            /\ asset[a].symbol # << >>
            /\ \A i \in DOMAIN asset[a].symbol :
                  asset[a].symbol[i] \notin {"a", "b", "c"}
            /\ asset[a].symbol[1] # " "
            /\ asset[a].symbol[Len(asset[a].symbol)] # " ")
    /\ [][(/\ paRes'.op = "updateAsset"
           /\ paRes'.status \in {404, 400, 409}
           /\ paRes' # paRes \/ paReq' # paReq) => asset' = asset]_vars

\* an asset created from " ab " with an allocation of 101, next to another
C30_Witness ==
    /\ "a2" \in DOMAIN asset
    /\ \E a \in DOMAIN asset : /\ asset[a].symbol = <<"A", "B">>
                               /\ asset[a].allocationPercentage = 100
                               /\ asset[a].costPerShare = 0
                               /\ asset[a].closePrice = 50
    /\ paRes = [op |-> "updateAsset", status |-> 409]

(***************************************************************************)
(* Specifications                                                          *)
(***************************************************************************)
Init == PaInit /\ LogInit /\ AccessInit /\ ReportInit /\ AccountInit

PaSpec == Init /\ [][PaNext]_vars

LogSpec == Init /\ [][LogNext]_vars

RoleSpec == Init /\ [][RoleNext]_vars

RouterSpec == Init /\ [][RouterNext]_vars

TxInit == PaInit /\ LogInit /\ AccessInit /\ TxTables /\ AccountInit

ActivityInit == PaInit /\ LogInit /\ AccessInit /\ ActivityRows /\ AccountInit

TxReportSpec == TxInit /\ [][TxReportNext]_vars

CashFlowSpec == TxInit /\ [][CashFlowNext]_vars

ListSpec == Init /\ [][ListNext]_vars

TrendInit == PaInit /\ LogInit /\ AccessInit /\ TrendTables /\ AccountInit

TrendSpec == TrendInit /\ [][TrendNext]_vars

ExportSpec == Init /\ [][ExportNext]_vars

\* the transfer ends, timers run and time passes
ExportFairness ==
    /\ WF_vars(\E slot \in ExportSlots, err \in BOOLEAN : DownloadCallback(slot, err))
    /\ WF_vars(\E slot \in ExportSlots : UnlinkTimer(slot))
    /\ WF_vars(ExportTick)

ExportLiveSpec == Init /\ [][ExportNext]_vars /\ ExportFairness

GroupInit == PaInit /\ LogInit /\ AccessInit /\ GroupTables /\ AccountInit

GroupSpec == GroupInit /\ [][GroupNext]_vars

WalletInit == PaInit /\ LogInit /\ AccessInit /\ WalletTable /\ AccountInit

WalletSpec == WalletInit /\ [][WalletNext]_vars

AccountSpecInit == PaInit /\ LogInit /\ AccessInit /\ ReportInit /\ AccountRows

AccountSpec == AccountSpecInit /\ [][AccountNext]_vars

AssetDeleteSpec == Init /\ [][AssetDeleteNext]_vars

AssetSpecInit == AssetInit /\ LogInit /\ AccessInit /\ ReportInit /\ AccountInit

AssetSpec == AssetSpecInit /\ [][AssetNext]_vars

InsightSpec == Init /\ [][InsightNext]_vars

ReportsSpec == TxInit /\ [][ReportsNext]_vars

ActivitySpec == ActivityInit /\ [][ActivityNext]_vars

====
